---- MODULE Spec2Model ----
(***************************************************************************)
(* Macromania's expression evaluator: Context.evaluate, the one-step       *)
(* reducer Context.doEvaluate and the round bookkeeping around it.         *)
(*                                                                         *)
(* Expressions are records tagged by t.  The callbacks an expression holds *)
(* (effect functions, lifecycle hooks, map functions) are records naming   *)
(* the closure that the tests and the tutorial of the repository use; the  *)
(* mutable variables such a closure captures live in ctx.calls.            *)
(***************************************************************************)
EXTENDS Integers, Sequences, FiniteSets, TLC

VARIABLES
  pc,                  \* where the evaluate call is: "start", "loop" (at the
                       \* top of the while loop), "round" (suspended at an
                       \* await of the round under way), "done"
  input,               \* the expression handed to evaluate
  exp,                 \* evaluate's local variable exp
  ctx,                 \* the fields of the Context (and the closures' variables)
  result,              \* what evaluate returned: a string expression or Null
  outcome,             \* how evaluate ended: "none", "string", "gaveUp", "halt",
                       \* or "threw" when it threw to its caller
  raised,              \* the value evaluate threw to its caller ("none" if none)
  currentlyEvaluating, \* the module-level flag of the same name
  began,               \* the Context as it was when the round under way began
  promise,             \* the promise of the round's call of doEvaluate
  parked               \* a second call of evaluate on the same Context that
                       \* waits at an await while the one above runs

vars ==
  <<pc, input, exp, ctx, result, outcome, raised, currentlyEvaluating, began,
    promise, parked>>

(***************************************************************************)
(* Bounds of the model.                                                    *)
(***************************************************************************)
MaxPend == 3    \* an effect signals Pending at most this often before it resolves
MaxKids == 3    \* longest fragment of leaf expressions handed to evaluate
MaxRound == 6   \* rounds after which an evaluation that still progresses is cut off
MaxCalls == 4   \* calls of pushLevel and popLevel on one LogLevelStacks

(***************************************************************************)
(* Expressions.                                                            *)
(***************************************************************************)
Null == [t |-> "null"]

Str(s) == [t |-> "str", s |-> s]

fragmentExp(exps) == [t |-> "fragment", fragment |-> exps]

effectExp(fun) == [t |-> "effect", effect |-> fun]

lifecycleExp(e, pre, post) ==
  [t |-> "lifecycle", lifecycle |-> [exp |-> e, pre |-> pre, post |-> post]]

mapExp(e, fun) == [t |-> "map", map |-> [exp |-> e, fun |-> fun]]

macroExp(e, dbg) == [t |-> "macro", macro |-> e, dbg |-> dbg]

expIsFragment(e) == e.t = "fragment"
expIsEffect(e) == e.t = "effect"
expIsLifecycle(e) == e.t = "lifecycle"
expIsMap(e) == e.t = "map"
expIsMacro(e) == e.t = "macro"
IsString(e) == e.t = "str"

\* Javascript values that are no expressions: Null, and
Undefined == [t |-> "undefined"]
Number == [t |-> "number"]
BigInt == [t |-> "bigint"]
Array(items) == [t |-> "array", items |-> items]
\* { [field]: value } with value one of "null", "number", "object" (for {}),
\* and {} itself for the field "none".
Object(field, value) == [t |-> "object", field |-> field, value |-> value]

\* The records of t "fragment", "effect", "lifecycle", "map" and "macro" are
\* built by the constructors above, so that their fields pass the checks of
\* the source; an Object fails them, or makes them throw (hasOwnThrows).
canBeEvaluatedOneStep(x) ==
  x.t \in {"str", "fragment", "effect", "lifecycle", "map", "macro"}

\* Object.hasOwn(inner, "pre") and Object.hasOwn(inner, "fun") throw a
\* TypeError when inner is null, which typeof reports as "object".
hasOwnThrows(x) ==
  x.t = "object" /\ x.field \in {"lifecycle", "map"} /\ x.value = "null"

expressions(children) ==
  CASE children.t = "undefined" -> <<>>
    [] children.t = "array" -> children.items
    [] OTHER -> <<children>>

(***************************************************************************)
(* Stack (top first) and the tree position (the path of child indices).    *)
(***************************************************************************)
newStack == <<>>
Push(s, x) == <<x>> \o s
Pop(s) == IF s = <<>> THEN s ELSE Tail(s)
IsEmpty(s) == s = <<>>

\* peek() of a stack of child indices: -1 stands for undefined.
Peek(s) == IF s = <<>> THEN -1 ELSE Head(s).item

\* A tree position: its depth and its stack of child indices, top first.
\* Every node of the stack is an object of its own: ref tells the nodes
\* apart, so that two stacks are the same object (===) exactly when they are
\* equal here.  All positions of one Context grow from one empty stack.
RootEtp == [theDepth |-> 0, stack |-> newStack]

appendChild(etp, indexInParent, ref) ==
  [theDepth |-> etp.theDepth + 1,
   stack |-> Push(etp.stack, [item |-> indexInParent, ref |-> ref])]

\* n times pop(); pop() of the empty stack is the empty stack.
RECURSIVE PopN(_, _)
PopN(s, n) == IF n <= 0 THEN s ELSE PopN(Pop(s), n - 1)

\* stacksOfEqualLengthEq telling stacks apart by their objects alone.
stacksOfEqualLengthEq_SameObject(fst, snd) == fst = snd

RECURSIVE stacksOfEqualLengthEq(_, _)
stacksOfEqualLengthEq(fst, snd) ==
  IF fst = snd THEN TRUE
  ELSE IF Peek(fst) = -1 THEN FALSE
  ELSE Peek(fst) = Peek(snd) /\ stacksOfEqualLengthEq(Pop(fst), Pop(snd))

equals(this, other) ==
  IF this.theDepth # other.theDepth THEN FALSE
  ELSE stacksOfEqualLengthEq(this.stack, other.stack)

\* The loop of deepestCommonAncestor, over stacks of one depth.
RECURSIVE CommonAncestorLoop(_, _, _, _, _)
CommonAncestorLoop(myStack, otherStack, myDepth, candidate, candidateDepth) ==
  IF myDepth > 0 /\ myStack # otherStack
    THEN LET unequalTos == Peek(myStack) # Peek(otherStack)
         IN CommonAncestorLoop(Pop(myStack), Pop(otherStack), myDepth - 1,
              IF unequalTos THEN Pop(myStack) ELSE candidate,
              IF unequalTos THEN myDepth - 1 ELSE candidateDepth)
    ELSE [theDepth |-> candidateDepth, stack |-> candidate]

\* deepestCommonAncestor with the loop running until the two stacks are one
\* object, as if positions were told apart by their stack nodes alone.
deepestCommonAncestor_ByIdentity(this, other) ==
  LET myDepth == IF this.theDepth < other.theDepth THEN this.theDepth
                 ELSE other.theDepth
      myStack == PopN(this.stack, this.theDepth - myDepth)
      otherStack == PopN(other.stack, other.theDepth - myDepth)
      shared == {n \in 0..myDepth : PopN(myStack, n) = PopN(otherStack, n)}
      pops == CHOOSE n \in shared : \A m \in shared : n <= m
  IN [theDepth |-> myDepth - pops, stack |-> PopN(myStack, pops)]

deepestCommonAncestor(this, other) ==
  LET myDepth == IF this.theDepth < other.theDepth THEN this.theDepth
                 ELSE other.theDepth
      myStack == PopN(this.stack, this.theDepth - myDepth)
      otherStack == PopN(other.stack, other.theDepth - myDepth)
  IN CommonAncestorLoop(myStack, otherStack, myDepth, myStack, myDepth)

isAncestorOf(this, other) == equals(this, deepestCommonAncestor(this, other))

isStrictAncestorOf(this, other) ==
  isAncestorOf(this, other) /\ ~equals(this, other)

isDescendantOf(this, other) == isAncestorOf(other, this)

isStrictDescendantOf(this, other) == isStrictAncestorOf(other, this)

\* isEarlierThan with the answers for an ancestor and a descendant swapped.
isEarlierThan_AncestorLater(this, other) ==
  LET dca == deepestCommonAncestor(this, other)
  IN IF this.stack = dca.stack THEN FALSE
     ELSE other.stack = dca.stack

\* isEarlierThan with the two indices compared by < in place of <=.
isEarlierThan_StrictIndex(this, other) ==
  LET dca == deepestCommonAncestor(this, other)
      myStack == PopN(this.stack, this.theDepth - dca.theDepth + 1)
      otherStack == PopN(other.stack, other.theDepth - dca.theDepth + 1)
  IN IF this.stack = dca.stack THEN TRUE
     ELSE IF other.stack = dca.stack THEN FALSE
     ELSE IF IsEmpty(myStack) THEN TRUE
     ELSE Peek(otherStack) # -1 /\ Peek(myStack) < Peek(otherStack)

\* Both loops pop theDepth - dca.theDepth + 1 times (myI + 1 > dca.theDepth).
isEarlierThan(this, other) ==
  LET dca == deepestCommonAncestor(this, other)
      myStack == PopN(this.stack, this.theDepth - dca.theDepth + 1)
      otherStack == PopN(other.stack, other.theDepth - dca.theDepth + 1)
  IN IF this.stack = dca.stack THEN TRUE
     ELSE IF other.stack = dca.stack THEN FALSE
     ELSE IF IsEmpty(myStack) THEN TRUE
     ELSE Peek(otherStack) # -1 /\ Peek(myStack) <= Peek(otherStack)

isStrictlyEarlierThan(this, other) ==
  isEarlierThan(this, other) /\ ~equals(this, other)

isLaterThan(this, other) == isEarlierThan(other, this)

isStrictlyLaterThan(this, other) == isStrictlyEarlierThan(other, this)

(***************************************************************************)
(* Logging levels and LogLevelStacks.  A macro is known by its function;   *)
(* NoMacro stands for the argument macro left out (undefined).             *)
(***************************************************************************)
Levels == {"debug", "trace", "info", "warn", "error"}

levelToInt(level) ==
  CASE level = "debug" -> 0
    [] level = "trace" -> 1
    [] level = "info" -> 2
    [] level = "warn" -> 3
    [] OTHER -> 4

\* logGte as it would be with the strict comparison of logGt.
logGte_Strict(fst, snd) == levelToInt(fst) > levelToInt(snd)

logGte(fst, snd) == levelToInt(fst) >= levelToInt(snd)

NoMacro == "undefined"

NewLogLevelStacks == [defaultLevel |-> newStack, perMacroLevels |-> <<>>]

\* perMacroLevels.set(macro, stack)
SetPerMacro(l, macro, stack) ==
  [l EXCEPT !.perMacroLevels =
     [m \in (DOMAIN l.perMacroLevels) \cup {macro} |->
        IF m = macro THEN stack ELSE l.perMacroLevels[m]]]

\* perMacroLevels.delete(macro)
DeletePerMacro(l, macro) ==
  [l EXCEPT !.perMacroLevels =
     [m \in (DOMAIN l.perMacroLevels) \ {macro} |-> l.perMacroLevels[m]]]

\* pushLevel with a level for a macro going to the default stack as well.
pushLevel_AlsoDefault(l, level, macro) ==
  IF macro = NoMacro THEN [l EXCEPT !.defaultLevel = Push(@, level)]
  ELSE [SetPerMacro(l, macro,
          IF macro \in DOMAIN l.perMacroLevels
            THEN Push(l.perMacroLevels[macro], level)
            ELSE Push(newStack, level))
        EXCEPT !.defaultLevel = Push(@, level)]

pushLevel(l, level, macro) ==
  IF macro = NoMacro THEN [l EXCEPT !.defaultLevel = Push(@, level)]
  ELSE IF macro \notin DOMAIN l.perMacroLevels
    THEN SetPerMacro(l, macro, Push(newStack, level))
  ELSE SetPerMacro(l, macro, Push(l.perMacroLevels[macro], level))

\* popLevel that keeps the emptied stack of a macro in the map.
popLevel_KeepsEmpty(l, macro) ==
  IF macro = NoMacro THEN [l EXCEPT !.defaultLevel = Pop(@)]
  ELSE SetPerMacro(l, macro, Pop(l.perMacroLevels[macro]))

\* For a macro that has no stack the source throws a TypeError (pop of
\* undefined); the callers below never do that.
popLevel(l, macro) ==
  IF macro = NoMacro THEN [l EXCEPT !.defaultLevel = Pop(@)]
  ELSE LET newPerMacroStack == Pop(l.perMacroLevels[macro])
       IN IF IsEmpty(newPerMacroStack) THEN DeletePerMacro(l, macro)
          ELSE SetPerMacro(l, macro, newPerMacroStack)

\* shouldLog that asks the default stack first.
shouldLog_DefaultFirst(l, level, macro) ==
  IF ~IsEmpty(l.defaultLevel) THEN logGte(level, Head(l.defaultLevel))
  ELSE IF macro # NoMacro /\ macro \in DOMAIN l.perMacroLevels
    THEN logGte(level, Head(l.perMacroLevels[macro]))
  ELSE logGte(level, "info")

shouldLog(l, level, macro) ==
  IF macro = NoMacro \/ macro \notin DOMAIN l.perMacroLevels
    THEN IF IsEmpty(l.defaultLevel) THEN logGte(level, "info")
         ELSE logGte(level, Head(l.defaultLevel))
  ELSE logGte(level, IF IsEmpty(l.perMacroLevels[macro]) THEN "undefined"
                     ELSE Head(l.perMacroLevels[macro]))

(***************************************************************************)
(* States: one scoped state of strings ("S", test createScopedState) and   *)
(* one configuration ("C", test createConfig).  A configuration is an      *)
(* object: the state holds a reference into the heap of the Context.       *)
(***************************************************************************)
StateKeys == {"S", "C"}

ObjRef(n) == [t |-> "ref", ref |-> n]

\* initial of test createConfig: () => ({ a: 0, b: 1 }).
DefaultConfig == [a |-> 0, b |-> 1]

(***************************************************************************)
(* The Context.                                                            *)
(***************************************************************************)
NewContext ==
  [ stack |-> newStack,
    etp |-> RootEtp,
    haveToMakeProgress |-> FALSE,
    round |-> 0,
    madeProgressThisRound |-> FALSE,
    warnedOrWorseYet |-> FALSE,
    nodes |-> 0,         \* how many stack nodes the tree positions have pushed
    logLevelStacks |-> NewLogLevelStacks,
    logs |-> <<>>,       \* the calls of log and logEmptyLine so far
    clock |-> 0,         \* the milliseconds spent in awaited sleeps so far
    counter |-> 0,       \* let counter = 0 of test "sequential async fragments"
    calls |-> <<>>,      \* per effect closure: how often it has been invoked
    state |-> [k \in StateKeys |-> Undefined],   \* the Map of createState
    supplied |-> [k \in StateKeys |-> 0],  \* calls of initial() by the getters
    heap |-> <<>>,       \* the configuration objects created so far
    scopes |-> <<>>,     \* per StateScope closure: parentState and myState
    met |-> <<>>,        \* the kinds of the values met that were no expressions
    trace |-> <<>>,      \* every callback invocation so far, in order
    awaits |-> 0,        \* the awaits the round under way has come to
    pause |-> -1,        \* the await at which the caller of evaluate gets to
                         \* run while the round is suspended (-1: at none)
    flag |-> FALSE,      \* the module's currentlyEvaluating, as the code
                         \* that runs in the Context reads it
    inj |-> <<>>,        \* what the round under way finds changed behind an
                         \* await at which it was suspended: the await and
                         \* the Context and the flag as the caller left them
    others |-> 0,        \* how often another call of evaluate has written
                         \* currentlyEvaluating while this one was suspended
    turns |-> 0 ]        \* how often two calls on this Context took turns

mustMakeProgress(c) == c.haveToMakeProgress

\* getRound as it would be with the round counter raised before the round.
getRound_OffByOne(c) == c.round + 1

getRound(c) == c.round

\* this.etp = oldEtp.appendChild(i), the pushed node being a new object.
Descend(c, oldEtp, i) ==
  [c EXCEPT !.etp = appendChild(oldEtp, i, c.nodes), !.nodes = @ + 1]

\* A new object on the heap; the reference to it is the length of the heap.
Alloc(c, obj) == [c EXCEPT !.heap = Append(@, obj)]

\* initial with a nested configuration that is the parent's object itself.
initial_SameObject(key, parentState, c) ==
  IF key = "S" THEN [val |-> Str("a"), ctx |-> c]
  ELSE IF parentState = Undefined
    THEN [val |-> ObjRef(Len(c.heap) + 1), ctx |-> Alloc(c, DefaultConfig)]
  ELSE [val |-> parentState, ctx |-> c]

\* The function handed to createScopedState: for "S" () => "a", for "C" the
\* one of doCreateConfig, which makes the default configuration when there
\* is no parent state and a shallow copy { ...parentState } otherwise.
initial(key, parentState, c) ==
  IF key = "S" THEN [val |-> Str("a"), ctx |-> c]
  ELSE [val |-> ObjRef(Len(c.heap) + 1),
        ctx |-> Alloc(c, IF parentState = Undefined THEN DefaultConfig
                         ELSE c.heap[parentState.ref])]

\* The getter of createState.
get(key, c) ==
  IF c.state[key] = Undefined
    THEN LET i == initial(key, Undefined,
                          [c EXCEPT !.supplied[key] = @ + 1])
         IN [val |-> i.val, ctx |-> [i.ctx EXCEPT !.state[key] = i.val]]
    ELSE [val |-> c.state[key], ctx |-> c]

\* The setter of createState.
set(key, c, newState) == [c EXCEPT !.state[key] = newState]

didGiveUp(c) == mustMakeProgress(c) /\ ~c.madeProgressThisRound

didWarnOrError(c) == c.warnedOrWorseYet

\* Context.log, as far as the Context's own fields go.
\* The function of the macro whose frame is on top of the stack.
macroFun(c) == IF IsEmpty(c.stack) THEN NoMacro ELSE Head(c.stack).name

\* A call as it would be with the flag set only for a message that is let
\* through.
LogCall_FlagWhenShown(c, op, level, data) ==
  [c EXCEPT !.warnedOrWorseYet =
              (@ \/ (level \in {"warn", "error"}
                      /\ shouldLog(c.logLevelStacks, level, macroFun(c)))),
            !.logs = Append(@, [op |-> op, level |-> level, data |-> data,
                                macro |-> macroFun(c), round |-> c.round,
                                shown |-> shouldLog(c.logLevelStacks, level,
                                                    macroFun(c))])]

\* A call of log or logEmptyLine: the flag, and whether the backend is
\* called (shown) with the data.
LogCall(c, op, level, data) ==
  [c EXCEPT !.warnedOrWorseYet = (@ \/ level \in {"warn", "error"}),
            !.logs = Append(@, [op |-> op, level |-> level, data |-> data,
                                macro |-> macroFun(c), round |-> c.round,
                                shown |-> shouldLog(c.logLevelStacks, level,
                                                    macroFun(c))])]

\* Context.log.
Log(c, level, data) == LogCall(c, "log", level, data)

logEmptyLine(c, level) == LogCall(c, "logEmptyLine", level, "")

\* Context.currentLog, and so currentDebug, currentTrace, currentInfo,
\* currentWarn and currentError: the macro call on top of the stack is
\* logged at the level; nothing is logged when the stack is empty.
currentLog(c, level) ==
  IF IsEmpty(c.stack) THEN c ELSE Log(c, level, "current")

\* n calls of log in a row with the same level.
RECURSIVE LogTimes(_, _, _, _)
LogTimes(c, level, data, n) ==
  IF n = 0 THEN c ELSE LogTimes(Log(c, level, data), level, data, n - 1)

\* Context.printStack: let s = this.stack; while (!s.isEmpty()) one call of
\* log at logLevel for the frame on top of s, then s = s.pop().  The stack
\* of the Context stays as it is.
RECURSIVE printFrames(_, _, _)
printFrames(s, c, logLevel) ==
  IF IsEmpty(s) THEN c
  ELSE printFrames(Pop(s), Log(c, logLevel, "stack"), logLevel)

printStack(c, logLevel) == printFrames(c.stack, c, logLevel)

\* What a call of doEvaluate comes back with: an expression, or a thrown
\* value (what) on its way up to evaluate's catch.
Ret(e, c) == [exp |-> e, ctx |-> c, thrown |-> FALSE, what |-> "none"]

ThrownValue(v, c) == [exp |-> Null, ctx |-> c, thrown |-> TRUE, what |-> v]

\* A thrown haltEvaluation.
Thrown(c) == ThrownValue("halt", c)

\* A value thrown by a call that r is the outcome of, thrown on.
Rethrow(r) == ThrownValue(r.what, r.ctx)

\* Context.halt: print the stack, then throw.
halt(c) == Thrown(printStack(c, "error"))

\* An await of doEvaluate or of an async callback: the code is suspended
\* there and whoever holds the Context can read it.  r is what the awaited
\* call came to; the run goes on behind the await unless it is the one the
\* caller looks in at, and then it comes back like a thrown value, which
\* leaves the Context as the code left it.
NoPromise == [state |-> "none"]
NoCall == [pc |-> "none"]
Pending == [state |-> "pending"]
Fulfilled(e) == [state |-> "fulfilled", value |-> e]
Rejected(err) == [state |-> "rejected", value |-> err]

IsSuspended(r) == r.thrown /\ r.what = "suspended"
Pauses(c) == c.awaits = c.pause

\* What the code that ran while a round was suspended left behind: the
\* fields of the Context and the module's flag, without the place of the
\* round itself.
Shared(c, flag) ==
  [c EXCEPT !.awaits = 0, !.pause = -1, !.inj = <<>>, !.flag = flag]

\* The round goes on at its await with the Context as it is by then.
Merge(shared, c) ==
  [shared EXCEPT !.awaits = c.awaits, !.pause = c.pause, !.inj = c.inj]

\* One more thing done while the round is suspended at the await at.
Put(inj, at, shared) ==
  IF inj # <<>> /\ inj[Len(inj)].at = at
    THEN [inj EXCEPT ![Len(inj)].shared = shared]
  ELSE Append(inj, [at |-> at, shared |-> shared])

\* The Context behind the await that the round has come to: as the caller
\* or another call left it, if one ran while the round was suspended there.
Injected(c) ==
  IF \E i \in 1..Len(c.inj) : c.inj[i].at = c.awaits
    THEN Merge(c.inj[CHOOSE i \in 1..Len(c.inj) : c.inj[i].at = c.awaits].shared, c)
  ELSE c

\* The code behind an await runs on: with what was done in the meantime.
Passed(c) == Injected([c EXCEPT !.awaits = @ + 1])

Await(r) ==
  IF IsSuspended(r) THEN r
  ELSE IF Pauses(r.ctx)
    THEN [r EXCEPT !.ctx = Passed(@), !.thrown = TRUE, !.what = "suspended"]
  ELSE [r EXCEPT !.ctx = Passed(@)]

\* The await of a call that returned; a value thrown in it is on its way
\* up and changes nothing any more.
AwaitReturn(r) == IF r.thrown THEN r ELSE Await(r)

\* The module's currentlyEvaluating as the code running in c reads it.
FlagIsSet(c) == c.flag

\* The calls of this.error in printNonExp: eight up to the heading of the
\* JSON representation, then the one of JSON.stringify(x), an empty line and
\* the heading of the stack.
NonExpLinesBeforeJson == 8
NonExpLines == 11

\* Context.printNonExp: a series of error logs, then halt.  The ninth is of
\* JSON.stringify(x), which throws a TypeError for a bigint.
printNonExp(x, c) ==
  IF x.t = "bigint"
    THEN ThrownValue("TypeError",
                     LogTimes(c, "error", "nonExp", NonExpLinesBeforeJson))
  ELSE halt(LogTimes(c, "error", "nonExp", NonExpLines))

(***************************************************************************)
(* Callbacks.  Record(c, ...) notes an invocation in the trace.            *)
(***************************************************************************)
getEvaluationTreePosition(c) == c.etp

\* arg is the string handed to a map function ("" for the other callbacks);
\* stack and etp are what getDebuggingStack() and getEvaluationTreePosition()
\* return inside the callback, and evaluating is the module's
\* currentlyEvaluating as JSX written in the callback finds it.
Event(cb, id, c, ret, arg) ==
  [cb |-> cb, id |-> id, round |-> getRound(c), ret |-> ret,
   mmp |-> mustMakeProgress(c), arg |-> arg, stack |-> c.stack,
   etp |-> getEvaluationTreePosition(c), clock |-> c.clock,
   evaluating |-> FlagIsSet(c)]

Record(c, cb, id, ret) == [c EXCEPT !.trace = Append(@, Event(cb, id, c, ret, ""))]

RecordMap(c, id, evaled) ==
  [c EXCEPT !.trace = Append(@, Event("map", id, c, "exp", evaled))]

Calls(c, id) == IF id \in DOMAIN c.calls THEN c.calls[id] ELSE 0

Bump(c, id) ==
  [c EXCEPT !.calls = [x \in (DOMAIN c.calls) \cup {id} |->
                         IF x = id THEN Calls(c, id) + 1 ELSE c.calls[x]]]

\* The promise of an async effect function is settled: what the function
\* noted at its end, and when.
Settle(c, id, ret, arg) ==
  [c EXCEPT !.trace = Append(@, Event("settled", id, c, ret, arg))]

\* await sleep(ms)
sleep(c, ms) == [c EXCEPT !.clock = @ + ms]

\* An effect that read a state notes what it saw in arg.
RecordSaw(c, id, saw) ==
  [c EXCEPT !.trace = Append(@, Event("effect", id, c, "exp", saw))]

\* Closure with the two variables written once, when the scope is made, and
\* never again by the hooks.
Closure_WrittenOnce(c, id, parentState, myState) ==
  IF id \in DOMAIN c.scopes THEN c
  ELSE [c EXCEPT !.scopes = [x \in (DOMAIN c.scopes) \cup {id} |->
                               IF x = id THEN [parentState |-> parentState,
                                               myState |-> myState]
                               ELSE c.scopes[x]]]

\* The variables parentState and myState of the closure of one StateScope.
Closure(c, id, parentState, myState) ==
  [c EXCEPT !.scopes = [x \in (DOMAIN c.scopes) \cup {id} |->
                          IF x = id THEN [parentState |-> parentState,
                                          myState |-> myState]
                          ELSE c.scopes[x]]]

\* A configuration as a string.
CfgStr(o) == "a" \o ToString(o.a) \o "b" \o ToString(o.b)

\* for (const key in props) state[key] = props[key], on the object itself.
Overwrite(c, ref, props) ==
  [c EXCEPT !.heap[ref] = [k \in DOMAIN @ |->
                             IF k \in DOMAIN props THEN props[k] ELSE @[k]]]

\* What an invocation of a callback hands back: a value (Null for an effect
\* that signals Pending), or a thrown halt.
Gives(v, c) == [val |-> v, ctx |-> c, thrown |-> FALSE, what |-> "none"]

\* A callback whose call of halt came back with nothing thrown.
Throws_Swallowed(c) == [val |-> Str(""), ctx |-> c, thrown |-> FALSE, what |-> "none"]

Throws(c) == [val |-> Null, ctx |-> c, thrown |-> TRUE, what |-> "halt"]

\* A callback that throws a value of its own: throw new Error(...).
ThrowsValue(v, c) == [val |-> Null, ctx |-> c, thrown |-> TRUE, what |-> v]

\* <>{children}</>: the invocation of Fragment, which hands back the
\* fragment of the children.
FragmentOf(children, primary) ==
  macroExp(fragmentExp(children), [name |-> "Fragment", isPrimary |-> primary])

\* jsxSourceToDebuggingInformation for a macro invoked by JSX that is written
\* outside of every macro function (macroDepth is 0):
\* isPrimary: !(currentlyEvaluating || macroDepth > 0).
AsWritten(e, primary) ==
  IF expIsMacro(e) THEN [e EXCEPT !.dbg.isPrimary = primary] ELSE e

\* The JSX that a callback writes when it is called in c.
Written(e, c) == AsWritten(e, ~FlagIsSet(c))

\* then of an effect function: an expression that the function holds, or
\* JSX that it writes when it returns it (written).
Then(f, c) == IF f.written THEN Written(f.then, c) ELSE f.then

\* The effect functions of the tests:
\*   after     let i = 0; if (i < k) { i += 1; return null } else { return then }
\*   never     (_ctx) => null
\*   grace     ctx.mustMakeProgress() ? then : null
\*   halt      (ctx) => ctx.halt()
\*   spin      returns an effect that signals Pending until the next round
\*             and then returns a new spin effect
\*   spinWait  the effect that spin returns
\*   throw     (_) => { throw error }
\*   logEmptyLine  (ctx) => { ctx.logEmptyLine(level); return "" }
\*   currentLog    (ctx) => { ctx.currentLog(level); return "" }
\*   sleep     async (ctx) => { await sleep(ms); counter += 1;
\*             return `${counter}` }, signalling Pending the first k times
\*   getState  (ctx) => getState(ctx)
\*   saveEtp   (ctx) => { ptr.ptr = ctx.getEvaluationTreePosition();
\*             return <>{children}</> }, primary in the same way
\*   configure the effect of ConfigScope: writes the props into the state and
\*             returns <>{props.children}</>, the invocation of Fragment,
\*             which is primary unless currentlyEvaluating is set
CallEffect(f, c) ==
  CASE f.kind = "after" ->
         IF Calls(c, f.id) < f.k
           THEN Gives(Null, Record(Bump(c, f.id), "effect", f.id, "null"))
           ELSE Gives(Then(f, c), Record(Bump(c, f.id), "effect", f.id,
                                         IF f.then = Null THEN "null" ELSE "exp"))
    [] f.kind = "never" ->
         Gives(Null, Record(Bump(c, f.id), "effect", f.id, "null"))
    [] f.kind = "grace" ->
         IF mustMakeProgress(c)
           THEN Gives(Then(f, c), Record(Bump(c, f.id), "effect", f.id, "exp"))
           ELSE Gives(Null, Record(Bump(c, f.id), "effect", f.id, "null"))
    [] f.kind = "halt" ->
         Throws(halt(Record(Bump(c, f.id), "effect", f.id, "halt")).ctx)
    [] f.kind = "throw" ->
         ThrowsValue(f.error, Record(Bump(c, f.id), "effect", f.id, "throw"))
    [] f.kind = "getState" ->
         LET g == get(f.key, Bump(c, f.id))
         IN Gives(g.val, RecordSaw(g.ctx, f.id, g.val.s))
    [] f.kind = "setState" ->
         Gives(Str(""), Record(set(f.key, Bump(c, f.id), f.value),
                               "effect", f.id, "exp"))
    [] f.kind = "scope" ->
         LET g == get(f.key, Bump(c, f.id))
             i == initial(f.key, g.val, g.ctx)
         IN Gives(lifecycleExp(fragmentExp(f.children),
                               [kind |-> "scopePre", id |-> f.id, key |-> f.key],
                               [kind |-> "scopePost", id |-> f.id, key |-> f.key]),
                  Record(Closure(i.ctx, f.id, g.val, i.val),
                         "effect", f.id, "exp"))
    [] f.kind = "configure" ->
         LET g == get("C", Bump(c, f.id))
         IN Gives(FragmentOf(f.children, ~FlagIsSet(c)),
                  Record(Overwrite(g.ctx, g.val.ref, f.props),
                         "effect", f.id, "exp"))
    [] f.kind = "saveEtp" ->
         Gives(FragmentOf(f.children, ~FlagIsSet(c)),
               Record(Bump(c, f.id), "effect", f.id, "exp"))
    [] f.kind = "getConfig" ->
         LET g == get("C", Bump(c, f.id))
         IN Gives(Str(""), RecordSaw(g.ctx, f.id, CfgStr(g.ctx.heap[g.val.ref])))
    [] f.kind = "sleep" ->
         LET begun == Record(Bump(c, f.id), "effect", f.id,
                             IF Calls(c, f.id) < f.k THEN "null" ELSE "exp")
             woken == sleep(Passed(begun), f.ms)
         IN IF Pauses(begun) THEN ThrowsValue("suspended", Passed(begun))
            ELSE IF Calls(c, f.id) < f.k
              THEN Gives(Null, Settle(woken, f.id, "null", ""))
              ELSE Gives(Str(ToString(woken.counter + 1)),
                         Settle([woken EXCEPT !.counter = @ + 1], f.id, "exp",
                                ToString(woken.counter + 1)))
    [] f.kind = "logEmptyLine" ->
         Gives(Str(""), logEmptyLine(Record(Bump(c, f.id), "effect", f.id, "exp"),
                                     f.level))
    [] f.kind = "currentLog" ->
         Gives(Str(""), currentLog(Record(Bump(c, f.id), "effect", f.id, "exp"),
                                   f.level))
    [] f.kind = "spin" ->
         Gives(effectExp([kind |-> "spinWait", id |-> f.id, born |-> getRound(c)]),
               Record(Bump(c, f.id), "effect", f.id, "exp"))
    [] f.kind = "spinWait" ->
         IF getRound(c) > f.born
           THEN Gives(effectExp([kind |-> "spin", id |-> f.id]),
                      Record(Bump(c, f.id), "effect", f.id, "exp"))
           ELSE Gives(Null, Record(Bump(c, f.id), "effect", f.id, "null"))

\* The lifecycle hooks: those of the tests, which return nothing, and
\*   halt      (ctx) => ctx.halt()
\*   throw     (_) => { throw error }
\*   pushLevel (ctx) => ctx.logLevelStacks.pushLevel(props.level, props.macro)
\*   popLevel  (ctx) => ctx.logLevelStacks.popLevel(props.macro)
CallHook(h, which, c) ==
  CASE h.kind = "halt" -> Throws(halt(Record(c, which, h.id, "halt")).ctx)
    [] h.kind = "throw" -> ThrowsValue(h.error, Record(c, which, h.id, "throw"))
    [] h.kind = "scopePre" ->
         LET g == get(h.key, c)
         IN Gives(Null, Record(set(h.key,
                                   Closure(g.ctx, h.id, g.val,
                                           c.scopes[h.id].myState),
                                   c.scopes[h.id].myState),
                               which, h.id, "void"))
    [] h.kind = "scopePost" ->
         LET g == get(h.key, c)
         IN Gives(Null, Record(set(h.key,
                                   Closure(g.ctx, h.id,
                                           c.scopes[h.id].parentState, g.val),
                                   c.scopes[h.id].parentState),
                               which, h.id, "void"))
    [] h.kind = "pushLevel" ->
         Gives(Null, Record([c EXCEPT !.logLevelStacks =
                                        pushLevel(@, h.level, h.macro)],
                            which, h.id, "void"))
    [] h.kind = "popLevel" ->
         Gives(Null, Record([c EXCEPT !.logLevelStacks = popLevel(@, h.macro)],
                            which, h.id, "void"))
    [] OTHER -> Gives(Null, Record(c, which, h.id, "void"))

\* The map functions:
\*   omnomnom  () => ""
\*   wrap      (_, evaled) => "[" + evaled + "]"
\*   defer     (_, evaled) => an effect that signals Pending once and then
\*             returns evaled + "!"
\*   halt      (ctx, _) => ctx.halt()
\*   throw     (_, _) => { throw error }
\*   log       (ctx, evaled) => { ctx.log(props.level, evaled); return "" }
\*   sequence  (_, evaled) => fragmentExp([evaled, ...rest])
\*   give      (_ctx, _) => then, where then is JSX written in the function
CallMap(f, c, evaled) ==
  CASE f.kind = "halt" ->
         Throws(halt([c EXCEPT !.trace =
                        Append(@, Event("map", f.id, c, "halt", evaled))]).ctx)
    [] f.kind = "throw" ->
         ThrowsValue(f.error, [c EXCEPT !.trace =
                        Append(@, Event("map", f.id, c, "throw", evaled))])
    [] f.kind = "omnomnom" -> Gives(Str(""), RecordMap(c, f.id, evaled))
    [] f.kind = "log" ->
         Gives(Str(""), Log(RecordMap(c, f.id, evaled), f.level, evaled))
    [] f.kind = "sequence" ->
         Gives(fragmentExp(<<Str(evaled)>> \o f.rest), RecordMap(c, f.id, evaled))
    [] f.kind = "give" -> Gives(Written(f.then, c), RecordMap(c, f.id, evaled))
    [] f.kind = "wrap" ->
         Gives(Str("[" \o evaled \o "]"), RecordMap(c, f.id, evaled))
    [] f.kind = "defer" ->
         Gives(effectExp([kind |-> "after", id |-> Append(f.id, 8), k |-> 1,
                          then |-> Str(evaled \o "!"), written |-> FALSE]),
               RecordMap(c, f.id, evaled))

(***************************************************************************)
(* simplifyExpressionsArray.  A result of t "array" stands for the array   *)
(* that the function hands back unchanged.                                 *)
(***************************************************************************)
\* join as it would be without its argument: the separator is a comma.
RECURSIVE Join_Comma(_)
Join_Comma(exps) ==
  IF exps = <<>> THEN ""
  ELSE IF Len(exps) = 1 THEN Head(exps).s
  ELSE Head(exps).s \o "," \o Join_Comma(Tail(exps))

RECURSIVE Join(_)
Join(exps) == IF exps = <<>> THEN "" ELSE Head(exps).s \o Join(Tail(exps))

simplifyExpressionsArray(exps) ==
  IF Len(exps) = 0 THEN Str("")
  ELSE IF Len(exps) = 1 THEN exps[1]
  ELSE IF \A i \in 1..Len(exps) : IsString(exps[i]) THEN Str(Join(exps))
  ELSE [t |-> "array", items |-> exps]

(***************************************************************************)
(* Context.doEvaluate.                                                     *)
(***************************************************************************)
RECURSIVE doEvaluate(_, _)
RECURSIVE EvaluateItems(_, _, _, _, _)

\* The loop of the fragment case as it would be with unshift for push.
RECURSIVE EvaluateItems_Unshift(_, _, _, _, _)
EvaluateItems_Unshift(items, i, oldEtp, c, allEvaluated) ==
  IF i > Len(items)
    THEN [exps |-> allEvaluated, ctx |-> c, thrown |-> FALSE, what |-> "none"]
  ELSE LET r == doEvaluate(items[i], Descend(c, oldEtp, i - 1))
       IN IF r.thrown
            THEN [exps |-> allEvaluated, ctx |-> r.ctx, thrown |-> TRUE, what |-> r.what]
          ELSE EvaluateItems_Unshift(items, i + 1, oldEtp,
                                     [r.ctx EXCEPT !.etp = oldEtp],
                                     <<r.exp>> \o allEvaluated)

\* The loop as it would be if no child waited for the one before it, as
\* with Promise.all: every child begins at the time at which the loop was
\* entered, and the loop is left when the last promise is settled.
RECURSIVE EvaluateItems_Concurrent(_, _, _, _, _)
EvaluateItems_Concurrent(items, i, oldEtp, c, allEvaluated) ==
  IF i > Len(items)
    THEN [exps |-> allEvaluated,
          ctx |-> [c EXCEPT !.clock =
                     CHOOSE t \in {c.clock} \cup {c.trace[k].clock : k \in 1..Len(c.trace)} :
                       \A u \in {c.clock} \cup {c.trace[k].clock : k \in 1..Len(c.trace)} :
                         u <= t],
          thrown |-> FALSE, what |-> "none"]
  ELSE LET r == doEvaluate(items[i], Descend(c, oldEtp, i - 1))
       IN IF r.thrown
            THEN [exps |-> allEvaluated, ctx |-> r.ctx, thrown |-> TRUE, what |-> r.what]
          ELSE EvaluateItems_Concurrent(items, i + 1, oldEtp,
                                        [r.ctx EXCEPT !.etp = oldEtp,
                                                      !.clock = c.clock],
                                        Append(allEvaluated, r.exp))

\* The loop of the fragment case over exp.fragment[i], from index i on.
EvaluateItems(items, i, oldEtp, c, allEvaluated) ==
  IF i > Len(items)
    THEN [exps |-> allEvaluated, ctx |-> c, thrown |-> FALSE, what |-> "none"]
  ELSE LET r == doEvaluate(items[i], Descend(c, oldEtp, i - 1))
       IN IF r.thrown
            THEN [exps |-> allEvaluated, ctx |-> r.ctx, thrown |-> TRUE, what |-> r.what]
          ELSE EvaluateItems(items, i + 1, oldEtp,
                             [r.ctx EXCEPT !.etp = oldEtp], Append(allEvaluated, r.exp))

FragmentCase(e, c) ==
  LET r == EvaluateItems(e.fragment, 1, c.etp, c, <<>>)
      compressed == simplifyExpressionsArray(r.exps)
  IN IF r.thrown THEN Rethrow(r)
     ELSE IF compressed.t = "array"
       THEN Await(Ret(fragmentExp(compressed.items), r.ctx))
     ELSE Await(Ret(compressed, r.ctx))

\* The effect case as it would be if a Pending signal counted as progress.
EffectCase_PendingIsProgress(e, c) ==
  LET u == Await(CallEffect(e.effect, c))
  IN IF u.thrown THEN Rethrow(u)
     ELSE IF u.val = Null THEN Ret(e, [u.ctx EXCEPT !.madeProgressThisRound = TRUE])
     ELSE doEvaluate(u.val, [u.ctx EXCEPT !.madeProgressThisRound = TRUE])

EffectCase(e, c) ==
  LET u == Await(CallEffect(e.effect, c))
  IN IF u.thrown THEN Rethrow(u)
     ELSE IF u.val = Null THEN Ret(e, u.ctx)
     ELSE doEvaluate(u.val, [u.ctx EXCEPT !.madeProgressThisRound = TRUE])

\* The lifecycle case as it would be if post ran only once the inner
\* expression is a string.
LifecycleCase_PostWhenDone(e, c) ==
  LET p == Await(CallHook(e.lifecycle.pre, "pre", c))
      r == doEvaluate(e.lifecycle.exp, p.ctx)
      q == Await(CallHook(e.lifecycle.post, "post", r.ctx))
  IN IF p.thrown THEN Rethrow(p)
     ELSE IF r.thrown THEN r
     ELSE IF ~IsString(r.exp) THEN Ret([e EXCEPT !.lifecycle.exp = r.exp], r.ctx)
     ELSE IF q.thrown THEN Rethrow(q)
     ELSE Ret(r.exp, q.ctx)

\* The lifecycle case as it would be if running the hooks counted as
\* progress.
LifecycleCase_HooksAreProgress(e, c) ==
  LET p == Await(CallHook(e.lifecycle.pre, "pre", c))
      r == doEvaluate(e.lifecycle.exp, p.ctx)
      q == Await(CallHook(e.lifecycle.post, "post", r.ctx))
      c1 == [q.ctx EXCEPT !.madeProgressThisRound = TRUE]
  IN IF p.thrown THEN Rethrow(p)
     ELSE IF r.thrown THEN r
     ELSE IF q.thrown THEN Rethrow(q)
     ELSE IF IsString(r.exp) THEN Ret(r.exp, c1)
     ELSE Ret([e EXCEPT !.lifecycle.exp = r.exp], c1)

LifecycleCase(e, c) ==
  LET p == Await(CallHook(e.lifecycle.pre, "pre", c))
      r == doEvaluate(e.lifecycle.exp, p.ctx)
      q == Await(CallHook(e.lifecycle.post, "post", r.ctx))
  IN IF p.thrown THEN Rethrow(p)
     ELSE IF r.thrown THEN r
     ELSE IF q.thrown THEN Rethrow(q)
     ELSE IF IsString(r.exp) THEN Ret(r.exp, q.ctx)
     ELSE Ret([e EXCEPT !.lifecycle.exp = r.exp], q.ctx)

\* The map case as it would be if the mapped expression were wrapped in the
\* map again while it is no string.
MapCase_Rewrap(e, c) ==
  LET oldEtp == c.etp
      r == doEvaluate(e.map.exp, Descend(c, oldEtp, 0))
      c1 == [r.ctx EXCEPT !.etp = oldEtp]
      m == Await(CallMap(e.map.fun, c1, r.exp.s))
      n == doEvaluate(fragmentExp(<<Str(""), m.val>>), m.ctx)
  IN IF r.thrown THEN r
     ELSE IF IsString(r.exp)
       THEN IF m.thrown THEN Rethrow(m)
            ELSE IF n.thrown \/ IsString(n.exp) THEN n
            ELSE Ret([e EXCEPT !.map.exp = Str(r.exp.s)], n.ctx)
     ELSE Await(Ret([e EXCEPT !.map.exp = r.exp], c1))

MapCase(e, c) ==
  LET oldEtp == c.etp
      r == doEvaluate(e.map.exp, Descend(c, oldEtp, 0))
      c1 == [r.ctx EXCEPT !.etp = oldEtp]
      m == Await(CallMap(e.map.fun, c1, r.exp.s))
  IN IF r.thrown THEN r
     ELSE IF IsString(r.exp)
       THEN IF m.thrown THEN Rethrow(m)
            ELSE doEvaluate(fragmentExp(<<Str(""), m.val>>), m.ctx)
     ELSE Await(Ret([e EXCEPT !.map.exp = r.exp], c1))

MacroCase(e, c) ==
  LET oldEtp == c.etp
      r == doEvaluate(e.macro, Descend(c, oldEtp, 0))
      c1 == [r.ctx EXCEPT !.etp = oldEtp]
  IN IF r.thrown THEN r
     ELSE IF IsString(r.exp) THEN Ret(r.exp, c1)
     ELSE Ret([e EXCEPT !.macro = r.exp], c1)

\* The test as it would be without isPrimary.
HasPrimaryDbg_AnyDbg(e) == expIsMacro(e)

\* "dbg" in exp && exp.dbg.isPrimary; only macro expressions carry a dbg.
HasPrimaryDbg(e) == expIsMacro(e) /\ e.dbg.isPrimary

\* exps is what the call is handed: an array or undefined is taken for the
\* fragment of its items.  c notes in met a value that then fails the test
\* of canBeEvaluatedOneStep or makes it throw.
doEvaluate(exps, c0) ==
  LET e == IF exps.t \in {"undefined", "array"}
             THEN fragmentExp(expressions(exps)) ELSE exps
      c == IF canBeEvaluatedOneStep(e) THEN c0
           ELSE [c0 EXCEPT !.met = Append(@, e.t)]
  IN
  IF hasOwnThrows(e) THEN Await(ThrownValue("TypeError", c))
  ELSE IF ~canBeEvaluatedOneStep(e) THEN Await(printNonExp(e, c))
  ELSE IF IsString(e) THEN Await(Ret(e, c))
  ELSE
    LET c1 == IF HasPrimaryDbg(e) THEN [c EXCEPT !.stack = Push(@, e.dbg)] ELSE c
        \* Pop debug info, unless something was thrown.
        \* A macro's call returns behind its last await, with the
        \* position set back and the frame popped.
        Popped(r) ==
          IF r.thrown THEN r
          ELSE IF HasPrimaryDbg(e)
            THEN Await(Ret(r.exp, [r.ctx EXCEPT !.stack = Pop(@)]))
          ELSE IF expIsMacro(e) THEN Await(r)
          ELSE r
    IN Popped(CASE expIsFragment(e) -> FragmentCase(e, c1)
                [] expIsEffect(e) -> EffectCase(e, c1)
                [] expIsLifecycle(e) -> LifecycleCase(e, c1)
                [] expIsMap(e) -> MapCase(e, c1)
                [] expIsMacro(e) -> MacroCase(e, c1))

(***************************************************************************)
(* The expressions handed to evaluate.  Every callback carries an id, the  *)
(* path at which the expression that holds it was written, and every       *)
(* string names the place it was written at.                               *)
(***************************************************************************)
RECURSIVE PathStr(_)
PathStr(p) == IF p = <<>> THEN "" ELSE ToString(Head(p)) \o PathStr(Tail(p))

Counting(k, p, then) ==
  effectExp([kind |-> "after", id |-> p, k |-> k, then |-> then,
             written |-> FALSE])
\* The same with JSX that the function writes when it returns it.
CountingJsx(k, p, jsx) ==
  effectExp([kind |-> "after", id |-> p, k |-> k, then |-> jsx,
             written |-> TRUE])
Never(p) == effectExp([kind |-> "never", id |-> p])
Grace(p, then) ==
  effectExp([kind |-> "grace", id |-> p, then |-> then, written |-> FALSE])
\* (ctx) => ctx.mustMakeProgress() ? <SaveEtp ptr={..}/> : null
GraceJsx(p, jsx) ==
  effectExp([kind |-> "grace", id |-> p, then |-> jsx, written |-> TRUE])
Halting(p) == effectExp([kind |-> "halt", id |-> p])
Spinning(p) == effectExp([kind |-> "spin", id |-> p])
\* An effect that throws an error of its own, named after its place.
Throwing(p) == effectExp([kind |-> "throw", id |-> p, error |-> "E" \o PathStr(p)])
\* <lifecycle pre={..} post={..}>{e}</lifecycle>: the children are put in
\* a fragment.
Hooked(p, e) ==
  lifecycleExp(fragmentExp(expressions(e)),
               [kind |-> "count", id |-> p], [kind |-> "count", id |-> p])
\* A lifecycle expression one of whose hooks calls halt.
HookedHalting(p, which, e) ==
  lifecycleExp(e, [kind |-> IF which = "pre" THEN "halt" ELSE "count", id |-> p],
                  [kind |-> IF which = "post" THEN "halt" ELSE "count", id |-> p])
\* A lifecycle expression one of whose hooks throws an error of its own.
HookedThrowing(p, which, e) ==
  lifecycleExp(e, [kind |-> IF which = "pre" THEN "throw" ELSE "count", id |-> p,
                   error |-> "E" \o PathStr(p)],
                  [kind |-> IF which = "post" THEN "throw" ELSE "count", id |-> p,
                   error |-> "E" \o PathStr(p)])
\* <map fun={..}>{e}</map>: the children are put in a fragment.
Mapped(p, kind, e) == mapExp(fragmentExp(expressions(e)), [kind |-> kind, id |-> p])
MappedThrowing(p, e) ==
  mapExp(e, [kind |-> "throw", id |-> p, error |-> "E" \o PathStr(p)])

Invoked(p, e) == macroExp(e, [name |-> "M" \o PathStr(p), isPrimary |-> TRUE])
\* A macro invocation written in the body of another macro.
Emitted(p, e) == macroExp(e, [name |-> "M" \o PathStr(p), isPrimary |-> FALSE])

MapKinds == {"omnomnom", "wrap", "defer", "halt"}

EffectLeaves(p) ==
  {Counting(k, p, Str("e" \o PathStr(p))) : k \in 0..MaxPend}
    \cup {Never(p), Grace(p, Str("g" \o PathStr(p))), Halting(p)}

Leaves(p) == {Str("s" \o PathStr(p)), Spinning(p)} \cup EffectLeaves(p)

\* Effects that produce another effect.
Chains(p) ==
  {Counting(k, p, e) : k \in 0..1, e \in EffectLeaves(Append(p, 9))}
    \cup {Grace(p, e) : e \in EffectLeaves(Append(p, 9))}

Wrapped(p) ==
  Leaves(p) \cup Chains(p)
    \cup {Hooked(p, e) : e \in Leaves(Append(p, 0))}
    \cup {Mapped(p, k, e) : k \in MapKinds, e \in Leaves(Append(p, 0))}
    \cup {Invoked(p, e) : e \in Leaves(Append(p, 0))}

RECURSIVE LeafFragments(_, _)
\* The sequences of n leaves written at p, p+1, ...
LeafFragments(n, i) ==
  IF n = 0 THEN {<<>>}
  ELSE {<<a>> \o rest : a \in Leaves(<<i>>), rest \in LeafFragments(n - 1, i + 1)}

\* Nested macro invocations as in the tests of the debugging stack: a macro
\* that emits another macro, and an effect that returns the macro invocation
\* it was given as its children.
Nested(p, l) ==
  { Invoked(p, Emitted(Append(p, 0), Invoked(Append(Append(p, 0), 0), l))),
    Invoked(p, Emitted(Append(p, 0),
      Counting(0, Append(Append(p, 0), 0),
               Invoked(Append(Append(Append(p, 0), 0), 9), l)))) }

\* Values that are none of the six kinds of expression.
NonExps(p) ==
  { Number, Null, Undefined, BigInt,
    Array(<<Str("s" \o PathStr(p) \o "0"), Str("s" \o PathStr(p) \o "1")>>),
    Object("none", "object"), Object("fragment", "number"),
    Object("effect", "object"), Object("lifecycle", "null"),
    Object("lifecycle", "number"), Object("lifecycle", "object"),
    Object("map", "null"), Object("map", "object") }

\* Such a value at the root, as the child of a fragment, inside a wrapper,
\* and as what an effect function returns.
NonExpInputs ==
  NonExps(<<>>)
    \cup {fragmentExp(<<a, v>>) : a \in Leaves(<<0>>), v \in NonExps(<<1>>)}
    \cup {fragmentExp(<<v, a>>) : v \in NonExps(<<0>>), a \in Leaves(<<1>>)}
    \cup {Hooked(<<>>, v) : v \in NonExps(<<0>>)}
    \cup {Mapped(<<>>, "wrap", v) : v \in NonExps(<<0>>)}
    \cup {Invoked(<<>>, v) : v \in NonExps(<<0>>)}
    \cup {Counting(k, <<>>, v) : k \in 0..1, v \in NonExps(<<9>>)}

\* Expressions with a callback that throws, written at p.
Throwers(p) ==
  {Throwing(p), Invoked(p, Throwing(Append(p, 0)))}
    \cup {HookedThrowing(p, w, b) : w \in {"pre", "post"}, b \in Leaves(Append(p, 0))}
    \cup {MappedThrowing(p, b) : b \in Leaves(Append(p, 0))}

\* An effect at p that notes where it is, at once or after signalling
\* Pending once.
Notes(p) == {Counting(k, p, Str("e" \o PathStr(p))) : k \in 0..1}

\* A parent whose effect returns two children, next to a sibling; and the
\* parent at the root.
Families ==
  {fragmentExp(<<Counting(k, <<0>>, fragmentExp(<<x, y>>)), z>>) :
     k \in 0..1, x \in Notes(<<0, 9, 0>>), y \in Notes(<<0, 9, 1>>),
     z \in Notes(<<1>>)}
    \cup {Counting(k, <<>>, fragmentExp(<<x, y>>)) :
            k \in 0..1, x \in Notes(<<9, 0>>), y \in Notes(<<9, 1>>)}

\* A map as the middle child of a fragment, its function returning an
\* effect of its own (id ending in 8).
MapFamilies ==
  {fragmentExp(<<x, Mapped(<<1>>, "defer", w), z>>) :
     x \in Notes(<<0>>), w \in Notes(<<1, 0>>), z \in Notes(<<2>>)}
    \cup {Invoked(<<>>, fragmentExp(<<x, Mapped(<<0, 1>>, "defer", w), z>>)) :
            x \in Notes(<<0, 0>>), w \in Notes(<<0, 1, 0>>), z \in Notes(<<0, 2>>)}

\* <SaveEtp ptr={..}>{children}</SaveEtp> of the tests of the tree position:
\* the macro hands back an effect that notes where it is and returns
\* <>{children}</>.  primary is isPrimary of the invocation as the author
\* wrote it; for an invocation that a callback writes it is decided when
\* the callback is called (Written).
SaveEtp(p, primary, children) ==
  macroExp(effectExp([kind |-> "saveEtp", id |-> p, children |-> children]),
           [name |-> "SaveEtp", isPrimary |-> primary])

\* <A>{children}</A> of test "etp simple": the macro hands back
\* <>{children}</>, which it writes in its own body.
A(children) ==
  macroExp(FragmentOf(children, FALSE), [name |-> "A", isPrimary |-> TRUE])

\* <map fun={(_ctx, _) => then}>{e}</map>
MappedTo(p, e, then) ==
  mapExp(fragmentExp(expressions(e)), [kind |-> "give", id |-> p, then |-> then])

\* Test "etp simple".
EtpSimple ==
  SaveEtp(<<>>, TRUE,
    << A(<<SaveEtp(<<0, 0>>, TRUE,
             <<SaveEtp(<<0, 0, 0>>, TRUE, <<>>),
               SaveEtp(<<0, 0, 1>>, TRUE, <<>>)>>)>>),
       SaveEtp(<<1>>, TRUE,
         <<A(<<SaveEtp(<<1, 0, 0>>, TRUE, <<>>),
               SaveEtp(<<1, 0, 1>>, TRUE, <<>>)>>)>>) >>)

\* Test "etp delayed": the second child comes out of an effect once
\* progress must be made; and the same with an effect that hands it back
\* at once or after one round.
EtpFamilies ==
  {EtpSimple}
    \cup {SaveEtp(<<>>, TRUE, <<SaveEtp(<<0>>, TRUE, <<>>), d,
                               SaveEtp(<<2>>, TRUE, <<>>)>>) :
            d \in {GraceJsx(<<1>>, SaveEtp(<<1, 9>>, FALSE, <<>>))}
                    \cup {CountingJsx(k, <<1>>, SaveEtp(<<1, 9>>, FALSE, <<>>)) :
                            k \in 0..1}}

\* Test "etp map": a map as the middle child, its function returning an
\* invocation of SaveEtp (id ending in 8); and the same with the map's
\* child resolving a round later.
EtpMaps ==
  {SaveEtp(<<>>, TRUE,
     <<SaveEtp(<<0>>, TRUE, <<>>),
       MappedTo(<<1>>, w, SaveEtp(<<1, 8>>, FALSE, <<>>)),
       SaveEtp(<<2>>, TRUE, <<>>)>>) :
     w \in {SaveEtp(<<1, 0>>, TRUE, <<>>),
            CountingJsx(1, <<1, 0>>, SaveEtp(<<1, 0, 9>>, FALSE, <<>>))}}

\* GetState and SetState of test createScopedState.
GetState(p) == effectExp([kind |-> "getState", id |-> p, key |-> "S"])

SetState(p, s) ==
  effectExp([kind |-> "setState", id |-> p, key |-> "S", value |-> s])

\* The scope macro of doCreateScopedState around the given children.
StateScope(p, key, children) ==
  macroExp(effectExp([kind |-> "scope", id |-> p, key |-> key,
                      children |-> children]),
           [name |-> "StateScope", isPrimary |-> TRUE])

\* What stands in a scope: reads and writes of the state, at once, after a
\* round of waiting, and in the round in which progress has to be made.
StateLeaves(p) ==
  { GetState(p), SetState(p, Str("b")), SetState(p, Str("c")),
    Counting(1, p, GetState(Append(p, 9))),
    Counting(1, p, SetState(Append(p, 9), Str("d"))),
    Grace(p, GetState(Append(p, 9))) }

\* A read of the state at once or after a round of waiting.
Reads(p) == {GetState(p), Counting(1, p, GetState(Append(p, 9)))}

ScopedStates ==
  {fragmentExp(<<w, StateScope(<<1>>, "S", <<x, y>>), v>>) :
     w \in {GetState(<<0>>), SetState(<<0>>, Str("b")),
            Counting(1, <<0>>, SetState(<<0, 9>>, Str("c")))},
     x \in StateLeaves(<<1, 0>>), y \in StateLeaves(<<1, 1>>),
     v \in Reads(<<2>>)}
    \cup {fragmentExp(<<SetState(<<0>>, Str("b")),
                        StateScope(<<1>>, "S",
                          <<StateScope(<<1, 0>>, "S", <<x, y>>), z>>),
                        v>>) :
            x \in StateLeaves(<<1, 0, 0>>), y \in Reads(<<1, 0, 1>>),
            z \in StateLeaves(<<1, 1>>), v \in Reads(<<2>>)}

\* An effect that notes the configuration it finds.
GetConfig(p) == effectExp([kind |-> "getConfig", id |-> p])

\* The macro of doCreateConfig: a scope of the state "C" around the effect
\* that writes the props into the scope's configuration and hands back the
\* children.
ConfigScope(p, props, children) ==
  macroExp(
    macroExp(effectExp([kind |-> "scope", id |-> p, key |-> "C", children |->
               <<effectExp([kind |-> "configure", id |-> Append(p, 0),
                            props |-> props, children |-> children])>>]),
             [name |-> "StateScope", isPrimary |-> FALSE]),
    [name |-> "ConfigScope", isPrimary |-> TRUE])

ConfigReads(p) == {GetConfig(p), Counting(1, p, GetConfig(Append(p, 9)))}

\* Test createConfig: a configuration macro with one nested in it, between
\* two reads, another macro beside it, and reads before and after. The read
\* before the nested macro is made at once, the one after all macros a round
\* later.
Configs ==
  {fragmentExp(<<GetConfig(<<0>>),
                 ConfigScope(<<1>>, outer,
                   <<GetConfig(<<1, 0, 0>>),
                     ConfigScope(<<1, 0, 1>>, inner, <<g2>>), g3>>),
                 ConfigScope(<<2>>, [b |-> 5], <<GetConfig(<<2, 0, 0>>)>>),
                 Counting(1, <<3>>, GetConfig(<<3, 9>>))>>) :
     outer \in {[a |-> 2], [b |-> 7]},
     inner \in {[a |-> 3, b |-> 4], [b |-> 6], <<>>},
     g2 \in ConfigReads(<<1, 0, 1, 0, 0>>), g3 \in ConfigReads(<<1, 0, 2>>)}

\* A state that undefined is written to, between two accesses.
StateResets ==
  {fragmentExp(<<w, SetState(<<1>>, Undefined), v>>) :
     w \in {GetState(<<0>>), SetState(<<0>>, Str("b"))}, v \in Reads(<<2>>)}

\* <loggingLevel level=... macro=...>children</loggingLevel>
LoggingLevel(p, level, macro, children) ==
  lifecycleExp(fragmentExp(children),
               [kind |-> "pushLevel", id |-> p, level |-> level, macro |-> macro],
               [kind |-> "popLevel", id |-> p, macro |-> macro])

\* <log level=...>child</log>, and so <debug>, <trace>, <info>, <warn> and
\* <error>.
LogAt(p, level, child) ==
  mapExp(fragmentExp(<<child>>), [kind |-> "log", id |-> p, level |-> level])

\* An effect that calls logEmptyLine.
LogEmptyLine(p, level) ==
  effectExp([kind |-> "logEmptyLine", id |-> p, level |-> level])

\* The message of a log: a string, or an effect that needs a round more.
Messages(p) ==
  {Str("s" \o PathStr(p)), Counting(1, p, Str("e" \o PathStr(p)))}

\* Test "logging global levels": logs before, in and after a scope of a
\* logging level with another scope in it.
LogScopes ==
  {fragmentExp(<<LogAt(<<0>>, lv, Str("s000")),
                 LoggingLevel(<<1>>, l1, NoMacro,
                   <<LogAt(<<1, 0>>, lv, x1),
                     LoggingLevel(<<1, 1>>, l2, NoMacro,
                                  <<LogAt(<<1, 1, 0>>, lv, x2)>>),
                     LogAt(<<1, 2>>, lv, x3)>>),
                 LogAt(<<2>>, lv, x4)>>) :
     lv \in {"debug", "info", "warn"}, l1 \in {"debug", "warn"},
     l2 \in {"trace", "error"},
     x1 \in Messages(<<1, 0, 0, 0>>), x2 \in Messages(<<1, 1, 0, 0, 0>>),
     x3 \in Messages(<<1, 2, 0, 0>>), x4 \in Messages(<<2, 0, 0>>)}

\* Test "logging macro-specific levels": two macros that log, in a scope of
\* a level for the first of them, in a scope of a level for all.
LogMacros ==
  {LoggingLevel(<<>>, l1, NoMacro,
     <<LoggingLevel(<<0>>, l2, "M00",
         <<Invoked(<<0, 0>>, LogAt(<<0, 0, 0>>, lv, x)),
           Invoked(<<0, 1>>, LogAt(<<0, 1, 0>>, lv, y))>>)>>) :
     lv \in {"debug", "info", "warn"}, l1 \in {"debug", "warn"},
     l2 \in {"trace", "error"},
     x \in Messages(<<0, 0, 0, 0, 0>>), y \in Messages(<<0, 1, 0, 0, 0>>)}

\* An empty line logged at some level, next to a log.
LogLines ==
  {fragmentExp(<<LogEmptyLine(<<0>>, lv), LogAt(<<1>>, l, x)>>) :
     lv \in Levels, l \in {"debug", "info"}, x \in Messages(<<1, 0, 0>>)}

\* An effect that logs the macro call it is in.
CurrentLog(p, level) ==
  effectExp([kind |-> "currentLog", id |-> p, level |-> level])

\* The current macro call logged in a macro, in a macro in a scope of a
\* logging level, and outside of every macro.
CurrentLogs ==
  {CurrentLog(<<>>, lv) : lv \in {"info", "error"}}
    \cup {Invoked(<<>>, CurrentLog(<<0>>, lv)) : lv \in Levels}
    \cup {LoggingLevel(<<>>, l, NoMacro, <<Invoked(<<0>>, CurrentLog(<<0, 0>>, lv))>>) :
            l \in {"debug", "error"}, lv \in {"debug", "info", "warn"}}

\* An async effect function that sleeps.
Sleep(p, ms, k) == effectExp([kind |-> "sleep", id |-> p, ms |-> ms, k |-> k])

\* The milliseconds of test "sequential async fragments".
Naps == {1, 99, 50}

\* Test "sequential async fragments": three async effects beside each other
\* that sleep for different times; and such effects that signal Pending
\* once, in a fragment in a fragment, and coming out of another effect.
AsyncFragments ==
  {fragmentExp(<<Sleep(<<0>>, a, 0), Sleep(<<1>>, b, 0), Sleep(<<2>>, d, 0)>>) :
     a \in Naps, b \in Naps, d \in Naps}
    \cup {fragmentExp(<<fragmentExp(<<Sleep(<<0, 0>>, a, j), Sleep(<<0, 1>>, b, k)>>),
                        Counting(k, <<1>>, Sleep(<<1, 9>>, d, 0))>>) :
            a \in {99}, b \in {1, 50}, d \in {1}, j \in 0..1, k \in 0..1}

\* <sequence x={x} />
sequence(p, x) ==
  IF Len(x) = 0 THEN Str("")
  ELSE IF Len(x) = 1 THEN x[1]
  ELSE mapExp(x[1], [kind |-> "sequence", id |-> p, rest |-> Tail(x)])

\* What stands in a sequence, as the element i of the sequence written at
\* p: a string, or an effect that signals Pending k times first.
Elements(p, i) ==
  {Str("s" \o PathStr(p) \o ToString(i))}
    \cup {Counting(k, Append(p, i), Str("e" \o PathStr(p) \o ToString(i))) :
            k \in 0..1}

\* Test "sequence": sequences of no, one, two and three expressions.
Sequences ==
  {sequence(<<>>, <<>>)}
    \cup {sequence(<<>>, <<a>>) : a \in Elements(<<>>, 0)}
    \cup {sequence(<<>>, <<a, b>>) :
            a \in Elements(<<>>, 0), b \in Elements(<<>>, 1)}
    \cup {sequence(<<>>, <<a, b, d>>) :
            a \in Elements(<<>>, 0), b \in Elements(<<>>, 1),
            d \in Elements(<<>>, 2)}

Inputs ==
  Wrapped(<<>>)
    \cup Sequences
    \cup AsyncFragments
    \cup LogScopes
    \cup LogMacros
    \cup LogLines
    \cup CurrentLogs
    \cup StateResets
    \cup Configs
    \cup ScopedStates
    \cup Families
    \cup MapFamilies
    \cup EtpFamilies
    \cup EtpMaps
    \cup NonExpInputs
    \cup Throwers(<<>>)
    \cup {fragmentExp(<<a, b>>) : a \in Leaves(<<0>>), b \in Throwers(<<1>>)}
    \cup {fragmentExp(<<a, HookedHalting(<<1>>, w, b)>>) :
            a \in Leaves(<<0>>), w \in {"pre", "post"}, b \in Leaves(<<1, 0>>)}
    \cup {fragmentExp(<<a, b>>) :
            a \in UNION {Nested(<<0>>, l) : l \in Leaves(<<0, 0, 0, 9, 0>>)},
            b \in Leaves(<<1>>)}
    \cup {fragmentExp(xs) : xs \in UNION {LeafFragments(n, 0) : n \in 0..MaxKids}}
    \cup {fragmentExp(<<a, b>>) : a \in Wrapped(<<0>>), b \in Leaves(<<1>>)}
    \cup {fragmentExp(<<a, b>>) : a \in Leaves(<<0>>), b \in Wrapped(<<1>>)}
    \cup {Hooked(<<>>, fragmentExp(<<a, b>>)) :
            a \in Wrapped(<<0, 0>>), b \in Leaves(<<0, 1>>)}
    \cup {Hooked(<<>>, Hooked(<<0>>, fragmentExp(<<a, b>>))) :
            a \in Leaves(<<0, 0, 0>>), b \in Leaves(<<0, 0, 1>>)}

\* The expressions that an effect function hands back when it resolves, as
\* far as they are written in the function.
Returned(f) ==
  CASE f.kind \in {"after", "grace"} -> <<f.then>>
    [] f.kind \in {"scope", "configure", "saveEtp"} -> f.children
    [] OTHER -> <<>>

\* Whether an effect function of the given kind is written in e or in the
\* expression that an effect of e returns.
RECURSIVE HasEffectKind(_, _)
HasEffectKind(e, kind) ==
  CASE e.t = "fragment" ->
         \E i \in 1..Len(e.fragment) : HasEffectKind(e.fragment[i], kind)
    [] e.t = "effect" ->
         \/ e.effect.kind = kind
         \/ \E i \in 1..Len(Returned(e.effect)) :
              HasEffectKind(Returned(e.effect)[i], kind)
    [] e.t = "lifecycle" -> HasEffectKind(e.lifecycle.exp, kind)
    [] e.t = "map" -> HasEffectKind(e.map.exp, kind)
    [] e.t = "macro" -> HasEffectKind(e.macro, kind)
    [] OTHER -> FALSE

(***************************************************************************)
(* Context.evaluate.                                                       *)
(***************************************************************************)
\* The Context at the top of the loop: no await of the round to come has
\* been come to, and currentlyEvaluating is as the round before left it.
AtTop(c) == [c EXCEPT !.pause = -1, !.awaits = 0, !.inj = <<>>]

\* currentlyEvaluating = true, at the beginning of evaluate.
Entered(c) == [AtTop(c) EXCEPT !.flag = TRUE]

Init ==
  /\ pc = "start"
  /\ input \in Inputs
  /\ exp = Null
  /\ ctx = NewContext
  /\ result = Null
  /\ outcome = "none"
  /\ raised = "none"
  /\ currentlyEvaluating = FALSE
  /\ began = NewContext
  /\ promise = NoPromise
  /\ parked = NoCall

\* The call: currentlyEvaluating = true; let exp = expression.
Evaluate ==
  /\ pc = "start"
  /\ pc' = "loop"
  /\ exp' = input
  /\ currentlyEvaluating' = TRUE
  /\ ctx' = Entered(ctx)
  /\ began' = Entered(ctx)
  /\ UNCHANGED <<input, result, outcome, raised, promise, parked>>

\* The end of a round as it would be without the reset of
\* madeProgressThisRound.
RoundEnd_KeepsProgressFlag(c) ==
  [c EXCEPT !.haveToMakeProgress = IF ~c.madeProgressThisRound THEN TRUE ELSE @,
            !.round = @ + 1]

\* The end of a round that goes on: haveToMakeProgress is set after a round
\* without progress, the round counter goes up, madeProgressThisRound is reset.
RoundEnd(c) ==
  [c EXCEPT !.haveToMakeProgress = IF ~c.madeProgressThisRound THEN TRUE ELSE @,
            !.round = @ + 1,
            !.madeProgressThisRound = FALSE]

\* Whether the round that ended in c is the one evaluate gives up after.
GivesUp(c) == ~c.madeProgressThisRound /\ c.haveToMakeProgress

\* Context.doLogBlockingExpressions: an empty error line and the formatted
\* debugging information for each effect found in a fragment, a lifecycle
\* or a map; the chain of tests has no case for a macro expression.
RECURSIVE doLogBlockingExpressions(_, _)
RECURSIVE doLogBlockingAll(_, _)
doLogBlockingExpressions(e, c) ==
  IF IsString(e) THEN c
  ELSE IF expIsFragment(e) THEN doLogBlockingAll(e.fragment, c)
  ELSE IF expIsEffect(e) THEN Log(Log(c, "error", ""), "error", "blocked")
  ELSE IF expIsLifecycle(e) THEN doLogBlockingExpressions(e.lifecycle.exp, c)
  ELSE IF expIsMap(e) THEN doLogBlockingExpressions(e.map.exp, c)
  ELSE c

\* for (const inner of exp.fragment)
doLogBlockingAll(exps, c) ==
  IF exps = <<>> THEN c
  ELSE doLogBlockingAll(Tail(exps), doLogBlockingExpressions(Head(exps), c))

\* Context.logBlockingExpressions: two error logs, then the dump.
logBlockingExpressions(e, c) ==
  doLogBlockingExpressions(e, LogTimes(c, "error", "blocking", 2))

\* The while loop is left: exp is a string, which evaluate returns.
ReturnString ==
  /\ pc = "loop"
  /\ IsString(exp)
  /\ pc' = "done"
  /\ result' = exp
  /\ outcome' = "string"
  /\ currentlyEvaluating' = FALSE
  /\ UNCHANGED <<input, exp, ctx, raised, began, promise, parked>>

\* The test of the catch as it would be if every thrown value were taken
\* for the halt signal.
IsHaltSignal_Any(err) == TRUE

\* err === haltEvaluation
IsHaltSignal(err) == err = "halt"

\* exp = await this.doEvaluate(exp): the round under way, run from its
\* beginning up to the await that comes after those it has come to.
Resumed == doEvaluate(exp, [began EXCEPT !.pause = ctx.awaits])

\* The Context as the code leaves it at an await or at the end of the call.
Left(c) == [c EXCEPT !.pause = -1]

InRound ==
  /\ pc \in {"loop", "round"}
  /\ ~IsString(exp)
  /\ promise.state \in {"none", "pending"}

\* What the promise of a call of doEvaluate that came to r is.
PromiseOf(r) ==
  IF IsSuspended(r) THEN Pending
  ELSE IF r.thrown THEN Rejected(r.what)
  ELSE Fulfilled(r.exp)

\* exp = await this.doEvaluate(exp): the call runs up to its next await,
\* where evaluate is suspended and its caller, holding the Context, runs;
\* or to its end, where its promise is settled and evaluate runs on at the
\* next tick.
RoundSuspend ==
  /\ InRound
  /\ began.round < MaxRound
  /\ \E r \in {Resumed} :
        /\ ctx' = Left(r.ctx)
        /\ promise' = PromiseOf(r)
  /\ pc' = "round"
  /\ UNCHANGED <<input, exp, result, outcome, raised, currentlyEvaluating, began,
                 parked>>

\* A round in which halt is called: the catch returns null.
RoundHalt ==
  /\ pc = "round"
  /\ promise.state = "rejected"
  /\ IsHaltSignal(promise.value)
  /\ pc' = "done"
  /\ result' = Null
  /\ outcome' = "halt"
  /\ currentlyEvaluating' = FALSE
  /\ promise' = NoPromise
  /\ UNCHANGED <<input, exp, ctx, raised, began, parked>>

\* A round in which another value is thrown: the catch throws it on.
RoundThrow ==
  /\ pc = "round"
  /\ promise.state = "rejected"
  /\ ~IsHaltSignal(promise.value)
  /\ raised' = promise.value
  /\ pc' = "done"
  /\ outcome' = "threw"
  /\ currentlyEvaluating' = FALSE
  /\ promise' = NoPromise
  /\ UNCHANGED <<input, exp, ctx, result, began, parked>>

\* A round after which evaluate gives up.
RoundGiveUp ==
  /\ pc = "round"
  /\ promise.state = "fulfilled"
  /\ GivesUp(ctx)
  /\ exp' = promise.value
  /\ ctx' = logBlockingExpressions(promise.value, ctx)
  /\ pc' = "done"
  /\ result' = Null
  /\ outcome' = "gaveUp"
  /\ currentlyEvaluating' = FALSE
  /\ promise' = NoPromise
  /\ UNCHANGED <<input, raised, began, parked>>

\* A round after which the loop goes on.
RoundContinue ==
  /\ pc = "round"
  /\ promise.state = "fulfilled"
  /\ ~GivesUp(ctx)
  /\ exp' = promise.value
  /\ ctx' = AtTop(RoundEnd(ctx))
  /\ began' = AtTop(RoundEnd(ctx))
  /\ pc' = "loop"
  /\ promise' = NoPromise
  /\ UNCHANGED <<input, result, outcome, raised, currentlyEvaluating, parked>>

Next ==
  \/ Evaluate
  \/ ReturnString
  \/ RoundSuspend
  \/ RoundHalt
  \/ RoundThrow
  \/ RoundGiveUp
  \/ RoundContinue

Spec == Init /\ [][Next]_vars

(***************************************************************************)
(* Evaluations of other Contexts in the same module.  While this call of   *)
(* evaluate is suspended at an await, its caller runs: a call of evaluate  *)
(* on another Context begins there (currentlyEvaluating = true) or comes   *)
(* to its end (currentlyEvaluating = false).  The flag is the module's:    *)
(* the JSX that the callbacks of this evaluation write from then on finds  *)
(* it as the other call left it.  A call that ends may have begun before   *)
(* this one, and one that begins need not end while this one runs.         *)
(***************************************************************************)
\* How often the other calls write the flag while this one runs.
MaxOther == 2

\* The Context of this evaluation once another call has written the flag.
Told(c, value) == [c EXCEPT !.others = @ + 1, !.flag = value]

\* evaluate of another Context: currentlyEvaluating = true.  The call runs
\* while this one is suspended at an await; an assignment that leaves the
\* flag as it is changes nothing and is no step.
OtherBegins ==
  /\ pc = "round"
  /\ ctx.others < MaxOther
  /\ ~currentlyEvaluating
  /\ currentlyEvaluating' = TRUE
  /\ \E inj \in {Put(ctx.inj, ctx.awaits, Shared(Told(ctx, TRUE), TRUE))} :
       /\ ctx' = [Told(ctx, TRUE) EXCEPT !.inj = inj]
       /\ began' = [began EXCEPT !.inj = inj]
  /\ UNCHANGED <<pc, input, exp, result, outcome, raised, promise, parked>>

\* evaluate of another Context returns or throws: currentlyEvaluating = false.
OtherEnds ==
  /\ pc = "round"
  /\ ctx.others < MaxOther
  /\ currentlyEvaluating
  /\ currentlyEvaluating' = FALSE
  /\ \E inj \in {Put(ctx.inj, ctx.awaits, Shared(Told(ctx, FALSE), FALSE))} :
       /\ ctx' = [Told(ctx, FALSE) EXCEPT !.inj = inj]
       /\ began' = [began EXCEPT !.inj = inj]
  /\ UNCHANGED <<pc, input, exp, result, outcome, raised, promise, parked>>

\* The expressions evaluated next to other evaluations: the tests of the
\* tree position, whose callbacks write JSX; configuration scopes; nested
\* macro invocations around an effect that signals Pending; and one
\* expression each that halts, throws, and never resolves.
OtherInputs ==
  EtpFamilies
    \cup EtpMaps
    \cup {fragmentExp(<<ConfigScope(<<0>>, [a |-> 2],
                          <<g, ConfigScope(<<0, 0, 1>>, [b |-> 6],
                                 <<GetConfig(<<0, 0, 1, 0, 0>>)>>)>>)>>) :
            g \in ConfigReads(<<0, 0, 0>>)}
    \cup {fragmentExp(<<a, Str("s1")>>) :
            a \in UNION {Nested(<<0>>, Counting(k, <<0, 0, 0, 9, 0>>, Str("e")))
                           : k \in {0, 2}}}
    \cup {fragmentExp(<<a, Str("s1")>>) :
            a \in {Halting(<<0>>), Throwing(<<0>>), Never(<<0>>)}}

OtherInit ==
  /\ pc = "start"
  /\ input \in OtherInputs
  /\ exp = Null
  /\ ctx = NewContext
  /\ result = Null
  /\ outcome = "none"
  /\ raised = "none"
  /\ currentlyEvaluating = FALSE
  /\ began = NewContext
  /\ promise = NoPromise
  /\ parked = NoCall

OtherNext == Next \/ OtherBegins \/ OtherEnds

OtherSpec == OtherInit /\ [][OtherNext]_vars

(***************************************************************************)
(* A Context that is used again: the caller hands the same Context one     *)
(* more expression, once evaluate has returned or thrown, or while it is   *)
(* suspended at an await.  evaluate begins with currentlyEvaluating = true *)
(* and let exp = expression and assigns nothing else before the loop.  Two *)
(* calls that are under way together run in turns, each up to an await,    *)
(* on the one Context: its round counter, its flags, its stack and its     *)
(* tree position are those that the other call left.                       *)
(***************************************************************************)
\* The expressions of the second call: a string, an effect that is replaced
\* at once, and one that signals Pending on its first invocation.
SecondInputs ==
  { Str("again"),
    fragmentExp(<<Counting(0, <<7>>, Str("s7"))>>),
    fragmentExp(<<Counting(1, <<7>>, Str("s7"))>>) }

\* The expressions of the first call.
ReuseInputs ==
  {fragmentExp(<<a, b>>) :
     a \in {Counting(1, <<0>>, Str("e0")), Never(<<0>>), Halting(<<0>>),
            Throwing(<<0>>), Sleep(<<0>>, 50, 0)},
     b \in {Str("s1"), Counting(1, <<1>>, Str("e1"))}}
    \cup {Invoked(<<>>, fragmentExp(<<a, Str("s01")>>)) :
            a \in {Counting(1, <<0, 0>>, Str("e00")), Never(<<0, 0>>)}}
    \cup {fragmentExp(<<Never(<<0>>)>>)}

ReuseInit ==
  /\ pc = "start"
  /\ input \in ReuseInputs
  /\ exp = Null
  /\ ctx = NewContext
  /\ result = Null
  /\ outcome = "none"
  /\ raised = "none"
  /\ currentlyEvaluating = FALSE
  /\ began = NewContext
  /\ promise = NoPromise
  /\ parked = NoCall

\* The second call, made once the first is over.
EvaluateAgain ==
  /\ pc = "done"
  /\ parked = NoCall
  /\ input \notin SecondInputs
  /\ input' \in SecondInputs
  /\ pc' = "loop"
  /\ exp' = input'
  /\ currentlyEvaluating' = TRUE
  /\ result' = Null
  /\ outcome' = "none"
  /\ raised' = "none"
  /\ ctx' = Entered(ctx)
  /\ began' = Entered(ctx)
  /\ UNCHANGED <<promise, parked>>

\* How often the two calls take turns: at every await of the one that runs
\* the other may run on.  No two calls of ReuseInputs and SecondInputs take
\* more turns than this.
MaxTurns == 9

\* Where a call is: its step of evaluate, the awaits it has passed and the
\* round.
Place(at, awaits, round) == [pc |-> at, awaits |-> awaits, round |-> round]

\* The call that runs, as it waits at its await while the other one runs
\* on from the place `since'.
Held(since) ==
  [pc |-> pc, input |-> input, exp |-> exp, result |-> result,
   outcome |-> outcome, raised |-> raised, began |-> began,
   promise |-> promise, awaits |-> ctx.awaits, since |-> since]

\* The second call, made while the first is suspended at an await: it runs
\* on the Context as the first has left it there, and the first waits.
EvaluateMeanwhile ==
  /\ pc = "round"
  /\ parked = NoCall
  /\ input \notin SecondInputs
  /\ input' \in SecondInputs
  /\ parked' = Held(Place("loop", 0, getRound(ctx)))
  /\ pc' = "loop"
  /\ exp' = input'
  /\ currentlyEvaluating' = TRUE
  /\ result' = Null
  /\ outcome' = "none"
  /\ raised' = "none"
  /\ ctx' = Entered(ctx)
  /\ began' = Entered(ctx)
  /\ promise' = NoPromise

\* The call that runs is at an await or over, and the one that waited runs
\* on behind its await: it finds the Context and the flag of the module as
\* they are by now.  The call that runs has run: it is no longer where it
\* took over.
Switch ==
  /\ parked # NoCall
  /\ parked.pc = "round"
  /\ ctx.turns < MaxTurns
  /\ pc \in {"round", "done"}
  /\ Place(pc, ctx.awaits, getRound(ctx)) # parked.since
  /\ parked' = Held(Place(parked.pc, parked.awaits, getRound(ctx)))
  /\ pc' = parked.pc
  /\ input' = parked.input
  /\ exp' = parked.exp
  /\ result' = parked.result
  /\ outcome' = parked.outcome
  /\ raised' = parked.raised
  /\ promise' = parked.promise
  /\ \E inj \in {Put(parked.began.inj, parked.awaits,
                     Shared([ctx EXCEPT !.turns = @ + 1], currentlyEvaluating))} :
       /\ began' = [parked.began EXCEPT !.inj = inj]
       /\ ctx' = [ctx EXCEPT !.flag = currentlyEvaluating,
                             !.turns = @ + 1,
                             !.awaits = parked.awaits,
                             !.pause = -1,
                             !.inj = inj]
  /\ UNCHANGED currentlyEvaluating

ReuseNext == Next \/ EvaluateAgain \/ EvaluateMeanwhile \/ Switch

ReuseSpec == ReuseInit /\ [][ReuseNext]_vars

(***************************************************************************)
(* LogLevelStacks on its own: the LogLevelStacks of a new Context, and     *)
(* calls of pushLevel and popLevel on it, with a level and with or without *)
(* a macro.  Each call is noted in the trace with the stacks before it.    *)
(***************************************************************************)
Macros == {"X", "Y"}

\* The levels pushed: one laxer and two stricter than the baseline.
Thresholds == {"debug", "warn", "error"}

LevelInit ==
  /\ pc = "levels"
  /\ input = Null
  /\ exp = Null
  /\ ctx = NewContext
  /\ result = Null
  /\ outcome = "none"
  /\ raised = "none"
  /\ currentlyEvaluating = FALSE
  /\ began = NewContext
  /\ promise = NoPromise
  /\ parked = NoCall

LevelCall(cb, level, macro) ==
  [cb |-> cb, level |-> level, macro |-> macro, before |-> ctx.logLevelStacks]

PushLevel ==
  /\ pc = "levels"
  /\ Len(ctx.trace) < MaxCalls
  /\ \E level \in Thresholds, macro \in Macros \cup {NoMacro} :
       ctx' = [ctx EXCEPT
                 !.logLevelStacks = pushLevel(@, level, macro),
                 !.trace = Append(@, LevelCall("pushLevel", level, macro))]
  /\ UNCHANGED <<pc, input, exp, result, outcome, raised, currentlyEvaluating, began,
                 promise, parked>>

PopLevel ==
  /\ pc = "levels"
  /\ Len(ctx.trace) < MaxCalls
  /\ \E macro \in (DOMAIN ctx.logLevelStacks.perMacroLevels) \cup {NoMacro} :
       ctx' = [ctx EXCEPT
                 !.logLevelStacks = popLevel(@, macro),
                 !.trace = Append(@, LevelCall("popLevel", "none", macro))]
  /\ UNCHANGED <<pc, input, exp, result, outcome, raised, currentlyEvaluating, began,
                 promise, parked>>

LevelNext == PushLevel \/ PopLevel

LevelSpec == LevelInit /\ [][LevelNext]_vars

(***************************************************************************)
(* The Stack on its own, as the objects it is made of.  ctx.heap holds the *)
(* Node objects made so far, each with its fields item and next; a stack   *)
(* is a reference: 0 for an EmptyStack, n for the n-th Node.  The trace    *)
(* holds the calls made, each with the stack it returned and the heap      *)
(* before it.                                                              *)
(***************************************************************************)
EmptyStack == 0

\* push as it would be on a stack that keeps its elements in place: the
\* receiver takes the new item, and its old item moves to a new node.
push_InPlace(h, this, t) ==
  IF this = EmptyStack
    THEN [heap |-> Append(h, [item |-> t, next |-> this]), ret |-> Len(h) + 1]
    ELSE [heap |-> Append([h EXCEPT ![this] = [item |-> t, next |-> Len(h) + 1]],
                          h[this]),
          ret |-> this]

\* push(t): return new Node(t, this), of EmptyStack and of Node alike.
push(h, this, t) ==
  [heap |-> Append(h, [item |-> t, next |-> this]), ret |-> Len(h) + 1]

\* pop(): this for an EmptyStack, this.next for a Node.
pop(h, this) ==
  [heap |-> h, ret |-> IF this = EmptyStack THEN this ELSE h[this].next]

\* peek(): undefined for an EmptyStack, this.item for a Node.
peek(h, this) == IF this = EmptyStack THEN "undefined" ELSE h[this].item

isEmpty(h, this) == this = EmptyStack

\* The elements pushed in the calls.
Items == {"a", "b"}

\* The stacks at hand after the first n calls: a new stack, and what the
\* calls returned.
Handles(n) == {EmptyStack} \cup {ctx.trace[i].ret : i \in 1..n}

StackInit ==
  /\ pc = "stacks"
  /\ input = Null
  /\ exp = Null
  /\ ctx = NewContext
  /\ result = Null
  /\ outcome = "none"
  /\ raised = "none"
  /\ currentlyEvaluating = FALSE
  /\ began = NewContext
  /\ promise = NoPromise
  /\ parked = NoCall

StackPush ==
  /\ pc = "stacks"
  /\ Len(ctx.trace) < MaxCalls
  /\ \E this \in Handles(Len(ctx.trace)), t \in Items :
       \E r \in {push(ctx.heap, this, t)} :
         ctx' = [ctx EXCEPT
                   !.heap = r.heap,
                   !.trace = Append(@, [cb |-> "push", this |-> this, item |-> t,
                                        ret |-> r.ret, before |-> ctx.heap])]
  /\ UNCHANGED <<pc, input, exp, result, outcome, raised, currentlyEvaluating, began,
                 promise, parked>>

StackPop ==
  /\ pc = "stacks"
  /\ Len(ctx.trace) < MaxCalls
  /\ \E this \in Handles(Len(ctx.trace)) :
       \E r \in {pop(ctx.heap, this)} :
         ctx' = [ctx EXCEPT
                   !.heap = r.heap,
                   !.trace = Append(@, [cb |-> "pop", this |-> this, item |-> "none",
                                        ret |-> r.ret, before |-> ctx.heap])]
  /\ UNCHANGED <<pc, input, exp, result, outcome, raised, currentlyEvaluating, began,
                 promise, parked>>

StackNext == StackPush \/ StackPop

StackSpec == StackInit /\ [][StackNext]_vars

(***************************************************************************)
(* What the properties below speak about.                                  *)
(***************************************************************************)
Trace == ctx.trace

\* The effect functions written in e.
RECURSIVE EffectsOf(_)
EffectsOf(e) ==
  CASE e.t = "fragment" -> UNION {EffectsOf(e.fragment[i]) : i \in 1..Len(e.fragment)}
    [] e.t = "effect" -> {e.effect}
    [] e.t = "lifecycle" -> EffectsOf(e.lifecycle.exp)
    [] e.t = "map" -> EffectsOf(e.map.exp)
    [] e.t = "macro" -> EffectsOf(e.macro)
    [] OTHER -> {}

\* The ids of the lifecycle expressions in e.
RECURSIVE LifecyclesOf(_)
LifecyclesOf(e) ==
  CASE e.t = "fragment" -> UNION {LifecyclesOf(e.fragment[i]) : i \in 1..Len(e.fragment)}
    [] e.t = "lifecycle" -> {e.lifecycle.pre.id} \cup LifecyclesOf(e.lifecycle.exp)
    [] e.t = "map" -> LifecyclesOf(e.map.exp)
    [] e.t = "macro" -> LifecyclesOf(e.macro)
    [] OTHER -> {}

\* Some effect function returned a replacement during round r.
RoundProgress(r) ==
  \E i \in 1..Len(Trace) :
    Trace[i].round = r /\ Trace[i].cb = "effect" /\ Trace[i].ret = "exp"

\* The invocations of callback cb of id in round r, as indices of the trace.
Invocations(cb, id, r) ==
  {i \in 1..Len(Trace) : Trace[i].cb = cb /\ Trace[i].id = id /\ Trace[i].round = r}

Count(cb, id) == Cardinality({i \in 1..Len(Trace) : Trace[i].cb = cb /\ Trace[i].id = id})

Done == pc = "done"

(***************************************************************************)
(* C1.  If the tree holds an effect that signals Pending on every          *)
(* invocation and the other effects progress only finitely often, evaluate *)
(* does not run on for ever (it returns before the round bound cuts it     *)
(* off), and unless a callback called halt or threw it returns failure     *)
(* (null) with didGiveUp() true afterwards.                                *)
(***************************************************************************)
C1_AlwaysPendingGivesUp ==
  /\ (HasEffectKind(input, "never") /\ ~HasEffectKind(input, "spin"))
       => (Done \/ ctx.round < MaxRound)
  /\ (Done /\ HasEffectKind(input, "never") /\ outcome \notin {"halt", "threw"})
       => (result = Null /\ outcome = "gaveUp" /\ didGiveUp(ctx))

\* evaluate has given up on a tree with an always pending effect, after
\* another effect had made progress.
C1_Witness ==
  /\ Done /\ HasEffectKind(input, "never") /\ outcome = "gaveUp"
  /\ result = Null /\ didGiveUp(ctx)
  /\ \E r \in 0..ctx.round : RoundProgress(r)

GraceInputs ==
  { Grace(<<>>, Str("g")),
    Counting(0, <<>>, Grace(<<9>>, Str("g9"))),
    fragmentExp(<<Grace(<<0>>, Str("g0"))>>) }

GraceLiteral ==
  CASE input = Grace(<<>>, Str("g")) -> Str("g")
    [] input = Counting(0, <<>>, Grace(<<9>>, Str("g9"))) -> Str("g9")
    [] OTHER -> Str("g0")

(***************************************************************************)
(* C2.  An effect that signals Pending while mustMakeProgress() is false   *)
(* and returns a literal once it is true is resolved on the grace round:   *)
(* evaluate returns that literal and didGiveUp() is false afterwards; the  *)
(* same when the effect was produced by another effect.                    *)
(***************************************************************************)
C2_GraceRoundResolves ==
  (Done /\ input \in GraceInputs)
    => (outcome = "string" /\ result = GraceLiteral /\ ~didGiveUp(ctx))

(***************************************************************************)
(* C3.  didGiveUp() is true if and only if evaluate returned failure       *)
(* because no effect made progress in two successive rounds; it is false   *)
(* after a returned string and after a failure caused by halt().           *)
(***************************************************************************)
C3_DidGiveUpIffGaveUp == Done => (didGiveUp(ctx) <=> outcome = "gaveUp")

(***************************************************************************)
(* C4.  evaluate gives up only at the end of a round without progress      *)
(* whose immediately preceding round had no progress either.               *)
(***************************************************************************)
C4_GivesUpAfterTwoStalls ==
  outcome = "gaveUp"
    => (ctx.round >= 1 /\ ~RoundProgress(ctx.round) /\ ~RoundProgress(ctx.round - 1))

\* The effects written in the input that count k Pending signals and then
\* return a literal.
CountingEffects == {f \in EffectsOf(input) : f.kind = "after" /\ IsString(f.then)}

Resolutions(f) ==
  {i \in 1..Len(Trace) :
     Trace[i].cb = "effect" /\ Trace[i].id = f.id /\ Trace[i].ret = "exp"}

(***************************************************************************)
(* C5.  As claimed: for every k, an effect that signals Pending exactly k  *)
(* times before returning a literal resolves after exactly k+1 rounds,     *)
(* with getRound() = k on the resolving call.                              *)
(***************************************************************************)
C5_ResolvesAfterKPlusOneRounds ==
  \A k \in 0..MaxPend :
    (Done /\ input = Counting(k, <<>>, Str("e")))
      => /\ outcome = "string"
         /\ ctx.round = k + 1
         /\ \E i \in 1..Len(Trace) : Trace[i].ret = "exp" /\ Trace[i].round = k

(***************************************************************************)
(* C5, amended.  An effect written in the expression handed to evaluate    *)
(* that signals Pending exactly k times signals Pending in the rounds      *)
(* 0..k-1 and resolves in round k, with getRound() = k, whenever evaluate  *)
(* gets as far as round k; evaluate gets there only if it has not halted   *)
(* or given up before, so that on its own such an effect resolves for      *)
(* k <= 1 (after k+1 rounds) and makes evaluate give up in round 1 for     *)
(* k >= 2.                                                                 *)
(***************************************************************************)
C5_ResolvesInRoundK ==
  /\ \A f \in CountingEffects :
       /\ \A i \in 1..Len(Trace) :
            (Trace[i].cb = "effect" /\ Trace[i].id = f.id)
              => /\ Trace[i].round <= f.k
                 /\ Trace[i].ret = (IF Trace[i].round = f.k THEN "exp" ELSE "null")
       /\ ctx.round > f.k => Resolutions(f) # {}
  /\ \A k \in 0..MaxPend :
       (Done /\ input = Counting(k, <<>>, Str("e")))
         => IF k <= 1 THEN outcome = "string" /\ ctx.round = k + 1
                      ELSE outcome = "gaveUp" /\ ctx.round = 1

\* An effect that signalled Pending three times resolved in round 3.
C5_Witness ==
  /\ Done /\ outcome = "string"
  /\ \E f \in CountingEffects :
       f.k = 3 /\ \E i \in Resolutions(f) : Trace[i].round = 3

Replacements ==
  {i \in 1..Len(Trace) : Trace[i].cb = "effect" /\ Trace[i].ret = "exp"}

(***************************************************************************)
(* C6.  If the effect functions return a replacement only finitely often   *)
(* and every callback returns, evaluate terminates, with a string or with  *)
(* failure: the round counter never exceeds the number of replacements     *)
(* returned so far by more than one, an evaluation without an ever         *)
(* progressing effect returns before the round bound cuts it off, and what *)
(* it returns is a string or null.                                         *)
(***************************************************************************)
C6_Terminates ==
  /\ ctx.round <= Cardinality(Replacements) + 1
  /\ ~HasEffectKind(input, "spin") => (Done \/ ctx.round < MaxRound)
  /\ (Done /\ outcome # "threw")
       => \/ outcome = "string" /\ IsString(result)
          \/ outcome \in {"gaveUp", "halt"} /\ result = Null

\* An evaluation of several rounds has returned.
C6_Witness ==
  /\ Done /\ ~HasEffectKind(input, "spin")
  /\ ctx.round >= 3 /\ Cardinality(Replacements) >= 3

\* The string a map function makes of the string its children reduced to.
MapFinal(kind, s) ==
  CASE kind \in {"omnomnom", "log"} -> ""
    [] kind = "wrap" -> "[" \o s \o "]"
    [] kind = "defer" -> s \o "!"
    [] kind \in {"halt", "throw"} -> ""

\* The string that the effect function id returned when it resolved: the
\* state that a getState effect read, the counter of a sleep effect.
Said(id) ==
  LET at == {i \in 1..Len(Trace) :
               /\ Trace[i].id = id /\ Trace[i].ret = "exp"
               /\ Trace[i].cb \in {"effect", "settled"}}
  IN IF at = {} THEN "" ELSE Trace[CHOOSE i \in at : \A j \in at : j <= i].arg

\* The string an expression finally reduces to, read off the expression
\* (and off the trace for an effect that returns what it read or counted).
RECURSIVE Final(_)
RECURSIVE FinalOfAll(_)
FinalOfAll(es) == IF es = <<>> THEN "" ELSE Final(Head(es)) \o FinalOfAll(Tail(es))

Final(e) ==
  CASE e.t = "str" -> e.s
    [] e.t = "undefined" -> ""
    [] e.t = "array" -> FinalOfAll(e.items)
    [] e.t = "fragment" -> FinalOfAll(e.fragment)
    [] e.t = "effect" ->
         IF e.effect.kind \in {"getState", "sleep"} THEN Said(e.effect.id)
         ELSE FinalOfAll(Returned(e.effect))
    [] e.t = "lifecycle" -> Final(e.lifecycle.exp)
    [] e.t = "map" ->
         IF e.map.fun.kind = "sequence"
           THEN Final(e.map.exp) \o FinalOfAll(e.map.fun.rest)
         ELSE IF e.map.fun.kind = "give" THEN Final(e.map.fun.then)
         ELSE MapFinal(e.map.fun.kind, Final(e.map.exp))
    [] e.t = "macro" -> Final(e.macro)

(***************************************************************************)
(* C7.  The string evaluate returns for a fragment is the concatenation,   *)
(* in source order, of the strings its children finally reduce to, in      *)
(* whichever rounds the children resolve.                                  *)
(***************************************************************************)
C7_ConcatenationInSourceOrder ==
  (Done /\ outcome = "string") => result = Str(Final(input))

\* A fragment whose first child resolved late, after its second child.
C7_Witness ==
  /\ Done /\ outcome = "string" /\ expIsFragment(input)
  /\ Len(input.fragment) >= 2
  /\ ~IsString(input.fragment[1])
  /\ ctx.round >= 3
  /\ result = Str(Final(input))

AllLiterals(e) ==
  expIsFragment(e) /\ \A i \in 1..Len(e.fragment) : IsString(e.fragment[i])

\* s[1] + s[2] + ..., built from the left.
RECURSIVE ConcatUpTo(_, _)
ConcatUpTo(es, n) == IF n = 0 THEN "" ELSE ConcatUpTo(es, n - 1) \o es[n].s

(***************************************************************************)
(* C8.  A fragment whose children are all string literals evaluates to     *)
(* their concatenation in order; a fragment of length 0 evaluates to "".   *)
(***************************************************************************)
C8_LiteralFragment ==
  (Done /\ AllLiterals(input))
    => /\ outcome = "string"
       /\ result = Str(ConcatUpTo(input.fragment, Len(input.fragment)))
       /\ Len(input.fragment) = 0 => result = Str("")

\* A fragment of three literals has been evaluated.
C8_Witness ==
  /\ Done /\ AllLiterals(input) /\ Len(input.fragment) = 3
  /\ result = Str("s0s1s2")

(***************************************************************************)
(* C9.  For any lifecycle expression, after evaluate has returned (with a  *)
(* string, by giving up or because of halt) pre has been invoked as often  *)
(* as post.                                                                *)
(***************************************************************************)
C9_PrePostBalanced ==
  Done => \A id \in LifecyclesOf(input) : Count("pre", id) = Count("post", id)

IsStrictPrefix(p, q) == Len(p) < Len(q) /\ SubSeq(q, 1, Len(p)) = p

\* The callbacks invoked in round r from inside the lifecycle expression id.
Inside(id, r) ==
  {i \in 1..Len(Trace) : Trace[i].round = r /\ IsStrictPrefix(id, Trace[i].id)}

\* Round r ran to its end (it was not cut short by halt).
RoundFinished(r) == r < ctx.round \/ (r = ctx.round /\ outcome = "gaveUp")

HooksBracketInner(id, r) ==
  LET pres == Invocations("pre", id, r)
      posts == Invocations("post", id, r)
  IN /\ Cardinality(pres) <= 1
     /\ Cardinality(posts) <= 1
     /\ \A i \in Inside(id, r) \cup posts : \E j \in pres : j < i
     /\ \A i \in Inside(id, r) : \A j \in posts : i < j
     /\ RoundFinished(r) => Cardinality(posts) = Cardinality(pres)
     /\ (outcome = "halt" /\ r = ctx.round /\ pres # {})
          => (posts = {} <=> Len(Trace) \in Inside(id, r) \cup pres)

(***************************************************************************)
(* C10.  In every round in which a lifecycle expression is reduced, pre is *)
(* invoked exactly once, before every callback inside inner of that round, *)
(* and post exactly once, after them, when the reduction step of inner has *)
(* finished (it does not finish only when halt is thrown inside it),       *)
(* whether or not the step made progress; once the lifecycle expression    *)
(* has been replaced by a string neither hook is invoked again.            *)
(***************************************************************************)
C10_HooksOncePerRound ==
  /\ [](\A id \in LifecyclesOf(input) : \A r \in 0..ctx.round :
          HooksBracketInner(id, r))
  /\ [][\A id \in LifecyclesOf(input) :
          (pc = "loop" /\ id \notin LifecyclesOf(exp))
            => /\ Count("pre", id)' = Count("pre", id)
               /\ Count("post", id)' = Count("post", id)]_vars

\* A lifecycle expression was reduced in three rounds, the last of them with
\* progress, and has been replaced by a string.
C10_Witness ==
  /\ Done /\ outcome = "string"
  /\ \E id \in LifecyclesOf(input) :
       /\ Count("pre", id) = 3 /\ Count("post", id) = 3
       /\ Inside(id, 2) # {}

\* The map expressions written in e.
RECURSIVE MapsOf(_)
MapsOf(e) ==
  CASE e.t = "fragment" -> UNION {MapsOf(e.fragment[i]) : i \in 1..Len(e.fragment)}
    [] e.t = "lifecycle" -> MapsOf(e.lifecycle.exp)
    [] e.t = "map" -> {e} \cup MapsOf(e.map.exp)
    [] e.t = "macro" -> MapsOf(e.macro)
    [] OTHER -> {}

MapIds(e) == {m.map.fun.id : m \in MapsOf(e)}

MapCalls(id) == {i \in 1..Len(Trace) : Trace[i].cb = "map" /\ Trace[i].id = id}

(***************************************************************************)
(* C11.  The function of a map expression is invoked at most once over the *)
(* whole evaluation and exactly once when evaluate returns a string; it is *)
(* invoked after every callback of inner, with the string inner reduced    *)
(* to; from then on the map expression is gone from the expression under   *)
(* evaluation, and what its function returned is reduced on in later       *)
(* rounds without another invocation.                                      *)
(***************************************************************************)
C11_MapAppliedOnce ==
  \A m \in MapsOf(input) :
    LET id == m.map.fun.id
        calls == MapCalls(id)
    IN /\ Cardinality(calls) <= 1
       /\ (Done /\ outcome = "string") => Cardinality(calls) = 1
       /\ \A i \in calls :
            /\ Trace[i].arg = Final(m.map.exp)
            /\ \A j \in 1..Len(Trace) :
                 IsStrictPrefix(Append(id, 0), Trace[j].id) => j < i
            /\ \A j \in 1..Len(Trace) :
                 Trace[j].id = Append(id, 8) => i < j
       /\ pc = "loop" => (id \in MapIds(exp) <=> calls = {})

\* A map function was invoked once, after inner had needed a round of its
\* own, and the effect it returned resolved a round later.
C11_Witness ==
  /\ Done /\ outcome = "string"
  /\ \E m \in MapsOf(input) :
       /\ m.map.fun.kind = "defer"
       /\ \E i \in MapCalls(m.map.fun.id) :
            /\ Trace[i].round >= 1
            /\ Trace[i].arg # ""
            /\ \E j \in 1..Len(Trace) :
                 /\ Trace[j].id = Append(m.map.fun.id, 8)
                 /\ Trace[j].ret = "exp"
                 /\ Trace[j].round > Trace[i].round

\* Whether the callback cb of the function with this id wrote the JSX that
\* it returned while the module's currentlyEvaluating was false, so that
\* the macro invocation it wrote is primary.
WrotePrimary(cb, id) ==
  \E i \in 1..Len(Trace) :
    /\ Trace[i].cb = cb /\ Trace[i].id = id /\ Trace[i].ret = "exp"
    /\ ~Trace[i].evaluating

\* The effects that can be invoked while e is reduced (those written in e,
\* those they return, the one a deferring map function returns and the
\* further elements of a sequence), each with the primary macro invocations
\* around it, innermost first.  The invocations that the author wrote are
\* primary as they are written in e.  Those that a callback writes (the
\* Fragment of <>{children}</>, the JSX that a function returns) are not
\* primary without late; with late they are primary when the callback wrote
\* them while currentlyEvaluating was false.
RECURSIVE StacksOf(_, _, _)
StacksOf(e, acc, late) ==
  CASE e.t = "fragment" ->
         UNION {StacksOf(e.fragment[i], acc, late) : i \in 1..Len(e.fragment)}
    [] e.t = "effect" ->
         {<<e.effect.id, acc>>}
           \cup (IF e.effect.kind \in {"after", "grace"}
                   THEN StacksOf(IF e.effect.written
                                   THEN AsWritten(e.effect.then,
                                          late /\ WrotePrimary("effect", e.effect.id))
                                   ELSE e.effect.then,
                                 acc, late)
                 ELSE IF e.effect.kind \in {"configure", "saveEtp"}
                   THEN UNION {StacksOf(e.effect.children[i],
                                 IF late /\ WrotePrimary("effect", e.effect.id)
                                   THEN <<FragmentOf(<<>>, TRUE).dbg>> \o acc
                                   ELSE acc,
                                 late) : i \in 1..Len(e.effect.children)}
                 ELSE UNION {StacksOf(Returned(e.effect)[i], acc, late) :
                               i \in 1..Len(Returned(e.effect))})
    [] e.t = "lifecycle" -> StacksOf(e.lifecycle.exp, acc, late)
    [] e.t = "map" ->
         StacksOf(e.map.exp, acc, late)
           \cup (IF e.map.fun.kind = "defer"
                   THEN {<<Append(e.map.fun.id, 8), acc>>} ELSE {})
           \cup (IF e.map.fun.kind = "sequence"
                   THEN UNION {StacksOf(e.map.fun.rest[i], acc, late) :
                                 i \in 1..Len(e.map.fun.rest)}
                   ELSE {})
           \cup (IF e.map.fun.kind = "give"
                   THEN StacksOf(AsWritten(e.map.fun.then,
                                   late /\ WrotePrimary("map", e.map.fun.id)),
                                 acc, late)
                   ELSE {})
    [] e.t = "macro" ->
         StacksOf(e.macro, IF e.dbg.isPrimary THEN <<e.dbg>> \o acc ELSE acc,
                  late)
    [] OTHER -> {}

\* The stack of every effect invoked so far is the one that StacksOf names
\* for it.
StacksAre(late) ==
  \A i \in 1..Len(Trace) :
    Trace[i].cb = "effect"
      => \E x \in StacksOf(input, <<>>, late) :
           x[1] = Trace[i].id /\ x[2] = Trace[i].stack

\* No call of evaluate on another Context has begun or ended while this
\* evaluation was under way.
NoOtherCall == ctx.others = 0

C13_StackEmptyAfterEvaluate == Done => IsEmpty(ctx.stack)

\* The callback invocations that called halt.
HaltCalls == {i \in 1..Len(Trace) : Trace[i].ret = "halt"}

(***************************************************************************)
(* C14.  When an effect function, a map function or a lifecycle hook calls *)
(* halt, in whichever round and at whichever depth, no callback is invoked *)
(* after that call: the round is rejected with the halt signal, and when   *)
(* evaluate has run on it has returned failure (null); evaluate fails by   *)
(* way of halt only then or when it met a value that is no expression.     *)
(***************************************************************************)
C14_HaltEndsEvaluation ==
  /\ \A i \in HaltCalls : i = Len(Trace)
  /\ HaltCalls # {} =>
       \/ pc = "round" /\ promise.state \in {"pending", "rejected"}
            /\ (promise.state = "rejected" => IsHaltSignal(promise.value))
       \/ Done /\ outcome = "halt" /\ result = Null
  /\ outcome = "halt" => (HaltCalls # {} \/ ctx.met # <<>>)

\* A map function called halt in a later round, below a fragment, after
\* other callbacks had been invoked.
C14_Witness ==
  /\ Done /\ result = Null
  /\ expIsFragment(input)
  /\ \E i \in HaltCalls :
       Trace[i].cb = "map" /\ Trace[i].round >= 1 /\ i >= 3

\* The callback invocations that threw a value of their own.
ThrowCalls == {i \in 1..Len(Trace) : Trace[i].ret = "throw"}

(***************************************************************************)
(* C16.  A value that a callback throws and that is not the halt signal is *)
(* not turned into a failure return: evaluate throws that very value to    *)
(* its caller (and returns nothing).  No callback is invoked after the one *)
(* that threw: the call of doEvaluate is rejected with the value, and once  *)
(* evaluate has run on it is over.                                          *)
(***************************************************************************)
C16_OtherErrorsPropagate ==
  /\ \A i \in ThrowCalls :
       /\ i = Len(Trace)
       /\ \/ pc = "round" /\ promise.state \in {"pending", "rejected"}
          \/ Done /\ outcome = "threw"
       /\ promise.state = "rejected" => promise.value = "E" \o PathStr(Trace[i].id)
       /\ Done => /\ raised = "E" \o PathStr(Trace[i].id)
                  /\ result = Null
  /\ outcome \in {"string", "gaveUp", "halt"} => raised = "none"

\* A map function threw in a later round and evaluate threw its error on.
C16_Witness ==
  /\ Done /\ outcome = "threw" /\ raised = "E1"
  /\ \E i \in ThrowCalls : Trace[i].cb = "map" /\ Trace[i].round >= 1

(***************************************************************************)
(* C15.  Whenever the reducer meets a value that is no well-formed         *)
(* expression (a number, null, an object whose lifecycle or map field is   *)
(* null, ...), at the root or inside the tree, evaluate returns failure    *)
(* (null) by way of halt: it returns no string and throws nothing to its   *)
(* caller.                                                                 *)
(***************************************************************************)
C15_MalformedValueHalts ==
  (Done /\ ctx.met # <<>>)
    => (outcome = "halt" /\ result = Null /\ raised = "none")

(***************************************************************************)
(* Tree positions noted by the callbacks (getEvaluationTreePosition).      *)
(***************************************************************************)
\* The path of child indices from the root to a position.
RECURSIVE PathOfStack(_)
PathOfStack(s) ==
  IF s = <<>> THEN <<>> ELSE Append(PathOfStack(Tail(s)), Head(s).item)

PathOf(p) == PathOfStack(p.stack)

IsPrefix(p, q) == Len(p) <= Len(q) /\ SubSeq(q, 1, Len(p)) = p

EffectCalls == {i \in 1..Len(Trace) : Trace[i].cb = "effect"}

\* evaluate is not inside a round: it is at the top of its loop, or over.
BetweenRounds == pc # "round"

\* The first (i) and the second (j) child of one parent.
FirstAndSecond(i, j) ==
  LET p1 == Trace[i].etp
      p2 == Trace[j].etp
  IN /\ p1.theDepth >= 1 /\ p2.theDepth = p1.theDepth
     /\ PathOf(p1) = Append(PathOfStack(Pop(p1.stack)), 0)
     /\ PathOf(p2) = Append(PathOfStack(Pop(p1.stack)), 1)

(***************************************************************************)
(* C17.  For two effects that are the first and the second child of one    *)
(* fragment, with positions p1 and p2, p1.isStrictlyEarlierThan(p2) is     *)
(* true and p2.isStrictlyEarlierThan(p1) is false, however many rounds lie *)
(* between the two recordings.                                             *)
(***************************************************************************)
C17_SiblingsStrictlyOrdered ==
  \A i, j \in EffectCalls :
    FirstAndSecond(i, j) =>
      /\ isStrictlyEarlierThan(Trace[i].etp, Trace[j].etp)
      /\ ~isStrictlyEarlierThan(Trace[j].etp, Trace[i].etp)

AllCalls == 1..Len(Trace)

\* The stack nodes (objects) a position is made of.
NodesOf(p) == {p.stack[n].ref : n \in 1..Len(p.stack)}

(***************************************************************************)
(* C18.  a.isAncestorOf(b) is true exactly when the path of a from the     *)
(* root is a prefix of the path of b, so that siblings, cousins and        *)
(* descendants of a sibling are never reported as ancestors; this also     *)
(* when a and b were recorded in different rounds and share no stack node. *)
(* The positions are compared once a round is over: the callbacks invoked  *)
(* up to an await of the round are among those invoked up to its end.      *)
(***************************************************************************)
C18_AncestorIffPrefix ==
  BetweenRounds => \A i, j \in AllCalls :
    LET a == Trace[i].etp
        b == Trace[j].etp
    IN isAncestorOf(a, b) <=> IsPrefix(PathOf(a), PathOf(b))

\* A parent below the root and its child, recorded in different rounds and
\* without a stack node in common, are reported; the child's sibling and
\* the parent's sibling are not.
C18_Witness ==
  \E i, j, k, l \in AllCalls :
    LET a == Trace[i].etp
        b == Trace[j].etp
    IN /\ a.theDepth >= 1 /\ b.theDepth = a.theDepth + 1
       /\ Trace[i].round < Trace[j].round
       /\ NodesOf(a) \cap NodesOf(b) = {}
       /\ isAncestorOf(a, b) /\ ~isAncestorOf(b, a)
       /\ Trace[k].etp.theDepth = b.theDepth
       /\ ~equals(b, Trace[k].etp)
       /\ isAncestorOf(a, Trace[k].etp)
       /\ ~isAncestorOf(b, Trace[k].etp)
       /\ Trace[l].etp.theDepth = a.theDepth
       /\ ~isAncestorOf(Trace[l].etp, b) /\ ~isAncestorOf(b, Trace[l].etp)

(***************************************************************************)
(* C19.  If position a is a strict ancestor of position d (the path of a   *)
(* is a proper prefix of the path of d), then a.isEarlierThan(d) and       *)
(* a.isStrictlyEarlierThan(d) hold, also when a and d were recorded in     *)
(* different rounds.  The positions are compared once a round is over.     *)
(***************************************************************************)
C19_AncestorIsEarlier ==
  BetweenRounds => \A i, j \in AllCalls :
    LET a == Trace[i].etp
        d == Trace[j].etp
    IN IsStrictPrefix(PathOf(a), PathOf(d)) =>
         isEarlierThan(a, d) /\ isStrictlyEarlierThan(a, d)

\* An ancestor below the root and a descendant recorded in a later round,
\* without a stack node in common; and an ancestor and a descendant
\* recorded on one way down the tree.
C19_Witness ==
  \E i, j, k, l \in AllCalls :
    LET a == Trace[i].etp
        d == Trace[j].etp
    IN /\ a.theDepth >= 1 /\ IsStrictPrefix(PathOf(a), PathOf(d))
       /\ Trace[i].round < Trace[j].round
       /\ NodesOf(a) \cap NodesOf(d) = {}
       /\ isStrictlyEarlierThan(a, d)
       /\ Trace[k].etp.theDepth >= 1
       /\ Trace[k].etp.stack = Pop(Trace[l].etp.stack)
       /\ isStrictlyEarlierThan(Trace[k].etp, Trace[l].etp)

EffectCallsOf(id) == {i \in EffectCalls : Trace[i].id = id}

\* The effect calls of the map scenario: a map m with a sibling before it
\* and one after it; before and after are calls of those siblings, inner
\* one of the effect in the map's inner expression, mapped one of the
\* effect that the map's function returned.
\* The ids of the maps of e, those that come out of an effect included.
RECURSIVE AllMapIds(_)
AllMapIds(e) ==
  CASE e.t = "fragment" ->
         UNION {AllMapIds(e.fragment[i]) : i \in 1..Len(e.fragment)}
    [] e.t = "effect" ->
         UNION {AllMapIds(Returned(e.effect)[i]) :
                  i \in 1..Len(Returned(e.effect))}
    [] e.t = "lifecycle" -> AllMapIds(e.lifecycle.exp)
    [] e.t = "map" -> {e.map.fun.id} \cup AllMapIds(e.map.exp)
    [] e.t = "macro" -> AllMapIds(e.macro)
    [] OTHER -> {}

MapScenes ==
  UNION {[before : EffectCallsOf([m EXCEPT ![Len(m)] = @ - 1]),
          inner : EffectCallsOf(Append(m, 0)),
          mapped : EffectCallsOf(Append(m, 8)),
          after : EffectCallsOf([m EXCEPT ![Len(m)] = @ + 1])] :
           m \in AllMapIds(input) \ {<<>>}}

(***************************************************************************)
(* C20.  With a map as the middle child of a fragment, the position        *)
(* recorded inside the expression that the map's function returned is      *)
(* strictly earlier than the position recorded inside the map's inner      *)
(* expression, and both are strictly later than the position of the        *)
(* sibling before the map and strictly earlier than the position of the    *)
(* sibling after it.                                                       *)
(***************************************************************************)
C20_MapPositionsOrdered ==
  \A sc \in MapScenes :
    LET before == Trace[sc.before].etp
        inner == Trace[sc.inner].etp
        mapped == Trace[sc.mapped].etp
        after == Trace[sc.after].etp
    IN /\ isStrictlyEarlierThan(mapped, inner)
       /\ isStrictlyLaterThan(mapped, before)
       /\ isStrictlyLaterThan(inner, before)
       /\ isStrictlyEarlierThan(mapped, after)
       /\ isStrictlyEarlierThan(inner, after)

\* Test "etp map" has come to its end: the positions of the sibling before
\* the map, of the map's inner expression, of the expression its function
\* returned and of the sibling after it are recorded, and the comparisons
\* that the test asserts are true.
C20_Witness ==
  /\ Done /\ outcome = "string" /\ input \in EtpMaps
  /\ \E sc \in MapScenes :
       LET before == Trace[sc.before].etp
           inner == Trace[sc.inner].etp
           mapped == Trace[sc.mapped].etp
           after == Trace[sc.after].etp
       IN /\ Trace[sc.inner].cb = "effect" /\ Trace[sc.mapped].cb = "effect"
          /\ PathOf(inner) # PathOf(mapped)
          /\ isStrictlyLaterThan(mapped, before)
          /\ isStrictlyEarlierThan(mapped, inner)
          /\ isStrictlyLaterThan(inner, mapped)
          /\ isStrictlyEarlierThan(inner, after)

\* Two recordings of one place of the tree: equal paths.
SamePlace(i, j) == PathOf(Trace[i].etp) = PathOf(Trace[j].etp)

(***************************************************************************)
(* C21.  A position p compared with itself, or with an equal position      *)
(* recorded in another round: equals, isAncestorOf, isDescendantOf,        *)
(* isEarlierThan and isLaterThan are true, and isStrictAncestorOf,         *)
(* isStrictDescendantOf, isStrictlyEarlierThan and isStrictlyLaterThan are *)
(* false; this holds for the root position as well.  The positions are     *)
(* those recorded by the functions called so far, compared whenever the    *)
(* evaluation is between two rounds or has ended.                          *)
(***************************************************************************)
C21_ReflexiveAndIrreflexive ==
  BetweenRounds => \A i, j \in AllCalls :
    SamePlace(i, j) =>
      LET p == Trace[i].etp
          q == Trace[j].etp
      IN /\ equals(p, q) /\ isAncestorOf(p, q) /\ isDescendantOf(p, q)
         /\ isEarlierThan(p, q) /\ isLaterThan(p, q)
         /\ ~isStrictAncestorOf(p, q) /\ ~isStrictDescendantOf(p, q)
         /\ ~isStrictlyEarlierThan(p, q) /\ ~isStrictlyLaterThan(p, q)

\* One place below the root recorded in two rounds, by stacks that share no
\* node, and the root position recorded as well.
C21_Witness ==
  \E i, j, k \in AllCalls :
    /\ SamePlace(i, j) /\ Trace[i].round < Trace[j].round
    /\ Trace[i].etp.theDepth >= 2
    /\ NodesOf(Trace[i].etp) \cap NodesOf(Trace[j].etp) = {}
    /\ equals(Trace[i].etp, Trace[j].etp)
    /\ Trace[k].etp = RootEtp /\ equals(Trace[k].etp, Trace[k].etp)

(***************************************************************************)
(* Scoped state.                                                           *)
(***************************************************************************)
\* Every effect function that can be invoked while e is reduced, as far as
\* it is written in e.
RECURSIVE AllEffects(_)
AllEffects(e) ==
  CASE e.t = "fragment" ->
         UNION {AllEffects(e.fragment[i]) : i \in 1..Len(e.fragment)}
    [] e.t = "effect" ->
         {e.effect} \cup UNION {AllEffects(Returned(e.effect)[i]) :
                                  i \in 1..Len(Returned(e.effect))}
    [] e.t = "lifecycle" -> AllEffects(e.lifecycle.exp)
    [] e.t = "map" -> AllEffects(e.map.exp)
    [] e.t = "macro" -> AllEffects(e.macro)
    [] OTHER -> {}

EffectWithId(id) == CHOOSE f \in AllEffects(input) : f.id = id

\* The scopes around the place id, and the calls of the state's getter and
\* setter effects.
ScopesAround(id) ==
  {f.id : f \in {g \in AllEffects(input) :
                   g.kind = "scope" /\ IsStrictPrefix(g.id, id)}}

CallsOfKind(kind) ==
  {i \in EffectCalls :
     \E f \in AllEffects(input) : f.id = Trace[i].id /\ f.kind = kind}

\* The sets made before call i in the scope that call i is in.
SetsInScopeBefore(i) ==
  {j \in CallsOfKind("setState") :
     j < i /\ ScopesAround(Trace[j].id) = ScopesAround(Trace[i].id)}

Latest(S) == CHOOSE j \in S : \A k \in S : k <= j

\* What the getter is to return at call i: the value last set within the
\* same scope, in this or an earlier round, and the scope's initial value
\* when nothing was set there.
ScopeValue(i) ==
  IF SetsInScopeBefore(i) = {} THEN "a"
  ELSE EffectWithId(Trace[Latest(SetsInScopeBefore(i))].id).value.s

\* Whether the input writes undefined to a state; what the getter makes of
\* that is the matter of C24.
SetsUndefined ==
  \E f \in AllEffects(input) : f.kind = "setState" /\ f.value = Undefined

(***************************************************************************)
(* C22.  Sets of a scoped state are visible exactly within their scope:    *)
(* once the children of a scope macro have had their reduction step, in    *)
(* any round, the getter returns the value of the enclosing scope again,   *)
(* untouched by the sets made inside; and inside a scope the getter        *)
(* returns the scope's own last-set value in every later round, also when  *)
(* the children reduce over several rounds and when scopes are nested.     *)
(***************************************************************************)
C22_SetsStayInScope ==
  ~SetsUndefined =>
    \A i \in CallsOfKind("getState") : Trace[i].arg = ScopeValue(i)

\* In a round after the first, a getter inside a scope nested in another
\* reads what was set there in an earlier round, and the getter behind the
\* scopes still reads what was set before them.
C22_Witness ==
  \E i, j \in CallsOfKind("getState") :
    /\ Cardinality(ScopesAround(Trace[i].id)) = 2 /\ Trace[i].round >= 1
    /\ SetsInScopeBefore(i) # {}
    /\ Trace[Latest(SetsInScopeBefore(i))].round < Trace[i].round
    /\ Trace[i].arg \in {"b", "c"}
    /\ ScopesAround(Trace[j].id) = {} /\ Trace[j].round >= 1
    /\ Trace[j].arg = "b"
    /\ \E k \in CallsOfKind("setState") :
         k < j /\ Cardinality(ScopesAround(Trace[k].id)) = 1
         /\ Trace[k].round >= 1

(***************************************************************************)
(* Configurations.                                                         *)
(***************************************************************************)
\* The props of the configuration macro whose scope has the id s, if any.
ConfigProps(s) ==
  LET fs == {f \in AllEffects(input) :
               f.kind = "configure" /\ f.id = Append(s, 0)}
  IN IF fs = {} THEN <<>> ELSE (CHOOSE f \in fs : TRUE).props

\* The configuration o with the fields of props written over it.
WithProps(o, props) ==
  [k \in DOMAIN o |-> IF k \in DOMAIN props THEN props[k] ELSE o[k]]

\* The configuration at the place id: the defaults with the props of the
\* configuration macros around id written over them, outermost first.
RECURSIVE ConfigAt(_, _, _)
ConfigAt(id, n, acc) ==
  IF n >= Len(id) THEN acc
  ELSE ConfigAt(id, n + 1, WithProps(acc, ConfigProps(SubSeq(id, 1, n))))

(***************************************************************************)
(* C23.  Inside a configuration macro the getter returns the enclosing     *)
(* configuration with exactly the fields given as props overwritten and    *)
(* every other field as in the enclosing configuration; the enclosing      *)
(* configuration and the defaults, read after or beside the nested macro,  *)
(* are not changed by the nested overrides.                                *)
(***************************************************************************)
C23_ConfigOverridesOnlyInside ==
  \A i \in CallsOfKind("getConfig") :
    Trace[i].arg = CfgStr(ConfigAt(Trace[i].id, 0, DefaultConfig))

\* After the nested macro overwrote both fields, and in a later round, the
\* outer macro's configuration is read with its one override, and behind
\* the macros the defaults are read.
C23_Witness ==
  \E i, j, k \in CallsOfKind("getConfig") :
    /\ Trace[i].id = <<1, 0, 1, 0, 0>> /\ Trace[i].arg = CfgStr([a |-> 3, b |-> 4])
    /\ Trace[j].id = <<1, 0, 2, 9>> /\ i < j /\ Trace[j].round >= 1
    /\ Trace[j].arg = CfgStr([a |-> 2, b |-> 1])
    /\ Trace[k].id = <<3, 9>> /\ j < k
    /\ Trace[k].arg = CfgStr(DefaultConfig)

(***************************************************************************)
(* C24.  For each state made by createState and each Context, the initial  *)
(* supplier is invoked at most once, on the first access by the getter;    *)
(* every later call of the getter returns the cached or last-set value     *)
(* without invoking the supplier again, whatever has been set in between.  *)
(***************************************************************************)
C24_SupplierInvokedOnce ==
  \A k \in StateKeys : ctx.supplied[k] <= 1

(***************************************************************************)
(* Logging levels.                                                         *)
(***************************************************************************)
\* The levels by severity, and what the calls so far have left open for a
\* macro (or for no macro), the latest first: read off the calls, not the
\* stacks.
Severity(level) ==
  CHOOSE n \in 1..5 : <<"debug", "trace", "info", "warn", "error">>[n] = level

RECURSIVE OpenLevels(_, _)
OpenLevels(n, macro) ==
  IF n = 0 THEN <<>>
  ELSE LET o == Trace[n]
           open == OpenLevels(n - 1, macro)
       IN IF o.macro # macro THEN open
          ELSE IF o.cb = "pushLevel" THEN <<o.level>> \o open
          ELSE IF open = <<>> THEN open ELSE Tail(open)

\* The threshold for a log call from the given macro after the first n calls.
ThresholdAfter(n, macro) ==
  IF macro # NoMacro /\ OpenLevels(n, macro) # <<>>
    THEN Head(OpenLevels(n, macro))
  ELSE IF OpenLevels(n, NoMacro) # <<>> THEN Head(OpenLevels(n, NoMacro))
  ELSE "info"

\* The stacks after the first n calls.
StacksAfter(n) ==
  IF n = Len(Trace) THEN ctx.logLevelStacks ELSE Trace[n + 1].before

(***************************************************************************)
(* C25.  shouldLog(level, m) is true exactly when level is at least as     *)
(* severe as the threshold: the top of the private stack of m if m has     *)
(* one at the time (whether the default is stricter or laxer), else the    *)
(* top of the default stack if that is not empty, else info.               *)
(***************************************************************************)
C25_ShouldLogByThreshold ==
  \A level \in Levels, m \in Macros \cup {NoMacro} :
    shouldLog(ctx.logLevelStacks, level, m)
      <=> Severity(level) >= Severity(ThresholdAfter(Len(Trace), m))

\* X has a private level laxer than the default one, Y a stricter one, and
\* the answers for X, Y and no macro differ accordingly.
C25_Witness ==
  /\ ThresholdAfter(Len(Trace), "X") = "debug"
  /\ ThresholdAfter(Len(Trace), NoMacro) = "warn"
  /\ ThresholdAfter(Len(Trace), "Y") = "error"
  /\ shouldLog(ctx.logLevelStacks, "trace", "X")
  /\ ~shouldLog(ctx.logLevelStacks, "trace", NoMacro)
  /\ shouldLog(ctx.logLevelStacks, "warn", NoMacro)
  /\ ~shouldLog(ctx.logLevelStacks, "warn", "Y")

(***************************************************************************)
(* C26.  Pushing or popping a level for a macro X changes the answer of    *)
(* shouldLog(level, Y) for no other macro Y, and the answer of             *)
(* shouldLog(level) without a macro neither.                               *)
(***************************************************************************)
C26_OtherMacrosUntouched ==
  \A n \in 1..Len(Trace) :
    Trace[n].macro # NoMacro =>
      \A level \in Levels, m \in (Macros \cup {NoMacro}) \ {Trace[n].macro} :
        shouldLog(StacksAfter(n), level, m)
          <=> shouldLog(Trace[n].before, level, m)

\* A level was pushed for X and popped again while Y had a level of its
\* own and the default stack was not empty.
C26_Witness ==
  \E i, j \in 1..Len(Trace) :
    /\ i < j
    /\ Trace[i].cb = "pushLevel" /\ Trace[i].macro = "X"
    /\ Trace[j].cb = "popLevel" /\ Trace[j].macro = "X"
    /\ "Y" \in DOMAIN Trace[j].before.perMacroLevels
    /\ ~IsEmpty(Trace[j].before.defaultLevel)
    /\ shouldLog(StacksAfter(j), "debug", "Y")
    /\ ~shouldLog(StacksAfter(j), "info", NoMacro)

\* Whether the calls i..j are balanced: every pop is of the macro pushed
\* last among those still open, and nothing is left open.
RECURSIVE Balanced(_, _, _)
Balanced(i, j, open) ==
  IF i > j THEN open = <<>>
  ELSE IF Trace[i].cb = "pushLevel"
    THEN Balanced(i + 1, j, <<Trace[i].macro>> \o open)
  ELSE /\ open # <<>> /\ Head(open) = Trace[i].macro
       /\ Balanced(i + 1, j, Tail(open))

(***************************************************************************)
(* C27.  popLevel is the inverse of pushLevel: after pushLevel(l, m) and   *)
(* later popLevel(m), with m a macro or left out and with balanced pushes  *)
(* and pops in between, shouldLog gives for every level and every macro    *)
(* the answer it gave before the push.                                     *)
(***************************************************************************)
C27_PopUndoesPush ==
  \A i, j \in 1..Len(Trace) :
    (/\ i < j
     /\ Trace[i].cb = "pushLevel" /\ Trace[j].cb = "popLevel"
     /\ Trace[i].macro = Trace[j].macro
     /\ Balanced(i + 1, j - 1, <<>>))
      => \A level \in Levels, m \in Macros \cup {NoMacro} :
           shouldLog(StacksAfter(j), level, m)
             <=> shouldLog(Trace[i].before, level, m)

\* A push for a macro that had no level, undone around a balanced push and
\* pop of another kind.
C27_Witness ==
  \E i, j \in 1..Len(Trace) :
    /\ j = i + 3
    /\ Trace[i].cb = "pushLevel" /\ Trace[j].cb = "popLevel"
    /\ Trace[i].macro = "X" /\ Trace[j].macro = "X"
    /\ Trace[i + 1].macro = NoMacro
    /\ Balanced(i + 1, j - 1, <<>>)
    /\ "X" \notin DOMAIN Trace[i].before.perMacroLevels
    /\ StacksAfter(j) = Trace[i].before


\* The scopes of a logging level written in e: the id, the level and the
\* macro prop of each.
RECURSIVE LevelScopes(_)
LevelScopes(e) ==
  CASE e.t = "fragment" ->
         UNION {LevelScopes(e.fragment[i]) : i \in 1..Len(e.fragment)}
    [] e.t = "lifecycle" ->
         (IF e.lifecycle.pre.kind = "pushLevel"
            THEN {[id |-> e.lifecycle.pre.id, level |-> e.lifecycle.pre.level,
                   macro |-> e.lifecycle.pre.macro]}
            ELSE {})
           \cup LevelScopes(e.lifecycle.exp)
    [] e.t = "map" -> LevelScopes(e.map.exp)
    [] e.t = "macro" -> LevelScopes(e.macro)
    [] OTHER -> {}

\* The log expressions written in the input.
LogMaps == {m \in MapsOf(input) : m.map.fun.kind = "log"}

\* The calls of log that the function of m made: those with the string that
\* the children of m reduce to.
LogsOf(m) ==
  {i \in 1..Len(ctx.logs) :
     ctx.logs[i].op = "log" /\ ctx.logs[i].data = Final(m.map.exp)}

\* The level of the innermost scope without macro prop around the place p,
\* as the input is written; info when there is none.
EnclosingLevel(p) ==
  LET around == {s \in LevelScopes(input) :
                   s.macro = NoMacro /\ IsPrefix(s.id, p)}
  IN IF around = {} THEN "info"
     ELSE (CHOOSE s \in around : \A t \in around : Len(t.id) <= Len(s.id)).level

\* The macros that some scope of the input sets a level of their own for.
ScopedMacros == {s.macro : s \in LevelScopes(input)} \ {NoMacro}

(***************************************************************************)
(* C28.  A log expression is let through exactly when its level is at      *)
(* least the level of the innermost loggingLevel scope without macro prop  *)
(* that is written around it, or at least info when there is none; after   *)
(* an inner scope the level of the scope around it applies again; and this *)
(* in whichever round the message of the log is reduced to a string.  (A   *)
(* log made in a macro that a scope with macro prop sets a level for is    *)
(* gated by that level, which C25 and C26 are about.)                      *)
(***************************************************************************)
C28_GatedByEnclosingScope ==
  \A m \in LogMaps :
    \A i \in LogsOf(m) :
      ctx.logs[i].macro \notin ScopedMacros =>
        (ctx.logs[i].shown
           <=> Severity(ctx.logs[i].level)
                 >= Severity(EnclosingLevel(m.map.fun.id)))

\* In a later round, a log in an inner scope was held back and a log after
\* that scope, in the scope around it, was let through.
C28_Witness ==
  /\ Done /\ outcome = "string"
  /\ \E m, n \in LogMaps :
       /\ EnclosingLevel(m.map.fun.id) = "error"
       /\ EnclosingLevel(n.map.fun.id) = "debug"
       /\ \E i \in LogsOf(m), j \in LogsOf(n) :
            /\ i < j
            /\ ctx.logs[i].round >= 1 /\ ctx.logs[j].round >= 1
            /\ ~ctx.logs[i].shown /\ ctx.logs[j].shown


\* The calls so far of the given operations at level warn or error.
WarnCalls(ops) ==
  {i \in 1..Len(ctx.logs) :
     ctx.logs[i].op \in ops /\ ctx.logs[i].level \in {"warn", "error"}}

\* didWarnOrError() is true exactly when log has been called at level warn
\* or error.
C29_SetExactlyByLog ==
  didWarnOrError(ctx) <=> WarnCalls({"log"}) # {}

(***************************************************************************)
(* C29.  didWarnOrError() is true exactly when log or logEmptyLine has     *)
(* been called at level warn or error at least once on this Context,       *)
(* whether or not the message was let through; calls at info, trace or     *)
(* debug never set it, and once true it stays true.                        *)
(***************************************************************************)
C29_SetExactlyByLogOrEmptyLine ==
  /\ [](didWarnOrError(ctx) <=> WarnCalls({"log", "logEmptyLine"}) # {})
  /\ [][didWarnOrError(ctx) => didWarnOrError(ctx)']_vars

\* The first call at warn or error was a log that the level of the scope
\* around it held back; the flag is set, and evaluate has returned a string.
C29_Witness ==
  /\ Done /\ outcome = "string" /\ didWarnOrError(ctx)
  /\ \E i \in WarnCalls({"log"}) :
       /\ ~ctx.logs[i].shown
       /\ \A j \in WarnCalls({"log", "logEmptyLine"}) : i <= j


\* The place p is written before the place q, in a child of a fragment
\* before the child that q is in.
Before(p, q) ==
  \E k \in 1..Len(p) :
    /\ k <= Len(q)
    /\ SubSeq(p, 1, k - 1) = SubSeq(q, 1, k - 1)
    /\ p[k] < q[k]

\* Neither place is in the expression written at the other.
Apart(p, q) == ~IsPrefix(p, q) /\ ~IsPrefix(q, p)

\* The invocations of async effect functions, as indices of the trace.
AsyncCalls ==
  {i \in 1..Len(Trace) :
     /\ Trace[i].cb = "effect"
     /\ \E f \in AllEffects(input) : f.id = Trace[i].id /\ f.kind = "sleep"}

(***************************************************************************)
(* C30.  Within one round, no callback of a child of a fragment is invoked *)
(* before everything of the children before it is over: of two callback    *)
(* events of one round at places apart from each other, the earlier one is *)
(* at the place written first, and it is not later in time than the other; *)
(* and the promise of an async effect function is settled before any other *)
(* callback is invoked, so that callbacks of siblings never interleave:    *)
(* while the function sleeps, the round is suspended.                      *)
(***************************************************************************)
C30_SiblingsOneAfterTheOther ==
  /\ \A i, j \in 1..Len(Trace) :
       (i < j /\ Trace[i].round = Trace[j].round
          /\ Apart(Trace[i].id, Trace[j].id))
         => /\ Before(Trace[i].id, Trace[j].id)
            /\ Trace[i].clock <= Trace[j].clock
  /\ \A i \in AsyncCalls :
       IF i = Len(Trace) THEN pc = "round" /\ promise.state = "pending"
       ELSE /\ Trace[i + 1].cb = "settled"
            /\ Trace[i + 1].id = Trace[i].id

\* Test "sequential async fragments": the second of three async effects
\* sleeps longest, yet the three count 1, 2, 3 in the order written, and the
\* evaluation takes the sum of the three sleeps.
C30_Witness ==
  /\ Done /\ outcome = "string" /\ ctx.clock = 150
  /\ result = Str("123")
  /\ \E i, j, k \in 1..Len(Trace) :
       /\ i < j /\ j < k
       /\ Trace[i].cb = "settled" /\ Trace[i].id = <<0>> /\ Trace[i].arg = "1"
       /\ Trace[i].clock = 1
       /\ Trace[j].cb = "settled" /\ Trace[j].id = <<1>> /\ Trace[j].arg = "2"
       /\ Trace[j].clock = 100
       /\ Trace[k].cb = "settled" /\ Trace[k].id = <<2>> /\ Trace[k].arg = "3"


\* The sequences written in the input.
SequenceMaps == {m \in MapsOf(input) : m.map.fun.kind = "sequence"}

\* The expressions of the sequence m, in order.
ElementsOf(m) == <<m.map.exp>> \o m.map.fun.rest

\* The element e has been reduced to a string by the time of the call
\* Trace[j]: it is a string as written, or its effect has returned one in an
\* earlier call.
ReducedBefore(e, j) ==
  \/ IsString(e)
  \/ \E k \in 1..(j - 1) :
       Trace[k].cb = "effect" /\ Trace[k].id = e.effect.id /\ Trace[k].ret = "exp"

(***************************************************************************)
(* C31.  In a sequence of e1..en no callback of e(i+1) is invoked before   *)
(* e(i) has been reduced to a string, for every i from 1 to n-1, also when *)
(* e(i) needs several rounds.                                              *)
(***************************************************************************)
C31_SequenceInStrictOrder ==
  \A m \in SequenceMaps :
    \A i \in 1..(Len(ElementsOf(m)) - 1) :
      \A j \in 1..Len(Trace) :
        (expIsEffect(ElementsOf(m)[i + 1])
           /\ Trace[j].id = ElementsOf(m)[i + 1].effect.id)
          => ReducedBefore(ElementsOf(m)[i], j)

\* The same for the first two expressions of a sequence only.
C31_SecondAfterFirst ==
  \A m \in SequenceMaps :
    \A j \in 1..Len(Trace) :
      (expIsEffect(ElementsOf(m)[2]) /\ Trace[j].id = ElementsOf(m)[2].effect.id)
        => ReducedBefore(ElementsOf(m)[1], j)


\* The elements of a stack, top first, as peek, pop and isEmpty yield them.
RECURSIVE ElementsVia(_, _)
ElementsVia(h, this) ==
  IF isEmpty(h, this) THEN <<>>
  ELSE <<peek(h, this)>> \o ElementsVia(h, pop(h, this).ret)

(***************************************************************************)
(* C32.  push and pop never mutate their receiver: a stack obtained at     *)
(* some time yields, after any later push or pop on it or on a stack       *)
(* derived from it, the elements it yielded then; and push returns a stack *)
(* of the item on top of the elements of the receiver, pop one of the      *)
(* elements without the top.                                               *)
(***************************************************************************)
C32_ReceiverUnchanged ==
  \A n \in 1..Len(Trace) :
    /\ \A s \in Handles(n - 1) :
         ElementsVia(ctx.heap, s) = ElementsVia(Trace[n].before, s)
    /\ Trace[n].cb = "push" =>
         ElementsVia(ctx.heap, Trace[n].ret)
           = <<Trace[n].item>> \o ElementsVia(Trace[n].before, Trace[n].this)
    /\ Trace[n].cb = "pop" =>
         ElementsVia(ctx.heap, Trace[n].ret)
           = (IF Trace[n].this = EmptyStack THEN <<>>
              ELSE Tail(ElementsVia(Trace[n].before, Trace[n].this)))

\* Two different items were pushed on one stack of one element, and the
\* result of the first of the two pushes was popped afterwards; the stack
\* still yields its one element.
C32_Witness ==
  \E i, j, k, l \in 1..Len(Trace) :
    /\ i < j /\ j < k /\ k < l
    /\ Trace[i].cb = "push" /\ Trace[i].this = EmptyStack
    /\ Trace[j].cb = "push" /\ Trace[j].this = Trace[i].ret
    /\ Trace[k].cb = "push" /\ Trace[k].this = Trace[i].ret
    /\ Trace[k].item # Trace[j].item
    /\ Trace[l].cb = "pop" /\ Trace[l].this = Trace[j].ret
    /\ Trace[l].ret = Trace[i].ret
    /\ ElementsVia(ctx.heap, Trace[i].ret) = <<Trace[i].item>>
    /\ ElementsVia(ctx.heap, Trace[j].ret) = <<Trace[j].item, Trace[i].item>>
    /\ ElementsVia(ctx.heap, Trace[k].ret) = <<Trace[k].item, Trace[i].item>>


\* Some fragment in e holds two strings next to each other.
RECURSIVE HasAdjacentStrings(_)
HasAdjacentStrings(e) ==
  CASE e.t = "fragment" ->
         \/ \E i \in 1..(Len(e.fragment) - 1) :
              IsString(e.fragment[i]) /\ IsString(e.fragment[i + 1])
         \/ \E i \in 1..Len(e.fragment) : HasAdjacentStrings(e.fragment[i])
    [] e.t = "lifecycle" -> HasAdjacentStrings(e.lifecycle.exp)
    [] e.t = "map" -> HasAdjacentStrings(e.map.exp)
    [] e.t = "macro" -> HasAdjacentStrings(e.macro)
    [] OTHER -> FALSE

(***************************************************************************)
(* C33.  After a pass over a fragment, children next to each other that    *)
(* were reduced to strings are one string: the expression that a round     *)
(* leaves for the next round holds no fragment with two strings next to    *)
(* each other.                                                             *)
(***************************************************************************)
C33_NoAdjacentStrings ==
  (ctx.round >= 1 /\ exp # Null) => ~HasAdjacentStrings(exp)


(***************************************************************************)
(* C34.  mustMakeProgress() returns true only during a round whose         *)
(* immediately preceding round made no progress: a callback that is        *)
(* invoked in a round after a round in which some effect returned a        *)
(* replacement finds it false.                                             *)
(***************************************************************************)
C34_TrueOnlyInGraceRound ==
  \A i \in 1..Len(Trace) :
    Trace[i].mmp => (Trace[i].round >= 1 /\ ~RoundProgress(Trace[i].round - 1))


(***************************************************************************)
(* C35.  An effect that is attempted in several rounds finds an equal tree *)
(* position (per equals) on every attempt, whatever has become of the      *)
(* expressions around it between the rounds.                               *)
(***************************************************************************)
C35_SamePositionOnEveryAttempt ==
  \A i, j \in EffectCalls :
    Trace[i].id = Trace[j].id => equals(Trace[i].etp, Trace[j].etp)


(***************************************************************************)
(* C36.  isStrictlyEarlierThan is asymmetric: of no two positions that     *)
(* callbacks of one evaluation found is each strictly earlier than the     *)
(* other; and a strict descendant is never strictly earlier than its       *)
(* ancestor.                                                               *)
(***************************************************************************)
C36_StrictlyEarlierAsymmetric ==
  \A i, j \in AllCalls :
    /\ ~(isStrictlyEarlierThan(Trace[i].etp, Trace[j].etp)
           /\ isStrictlyEarlierThan(Trace[j].etp, Trace[i].etp))
    /\ isStrictDescendantOf(Trace[i].etp, Trace[j].etp)
         => ~isStrictlyEarlierThan(Trace[i].etp, Trace[j].etp)

\* The second half of it alone: a strict descendant is never strictly
\* earlier than its ancestor.
C36_DescendantNotEarlier ==
  \A i, j \in AllCalls :
    isStrictDescendantOf(Trace[i].etp, Trace[j].etp)
      => ~isStrictlyEarlierThan(Trace[i].etp, Trace[j].etp)


\* A round is about to be made.
InLoop == pc = "loop" /\ ~IsString(exp)

\* The Context at the end of the pass of the round that is about to be
\* made, before evaluate looks at the flags.
AfterPass == doEvaluate(exp, ctx)

\* The callback invocations of that pass, as indices of its trace.
PassCalls ==
  {i \in 1..Len(AfterPass.ctx.trace) : AfterPass.ctx.trace[i].round = ctx.round}

(***************************************************************************)
(* C37.  At the end of the pass of each round madeProgressThisRound is     *)
(* true exactly when an effect function returned a replacement during the  *)
(* round: it is false when the round begins, an effect that signals        *)
(* Pending does not set it, and neither do map functions and lifecycle     *)
(* hooks.                                                                  *)
(***************************************************************************)
C37_ProgressIffReplacement ==
  InLoop =>
    /\ ~ctx.madeProgressThisRound
    /\ ~AfterPass.thrown =>
         (AfterPass.ctx.madeProgressThisRound
            <=> \E i \in PassCalls :
                  /\ AfterPass.ctx.trace[i].cb = "effect"
                  /\ AfterPass.ctx.trace[i].ret = "exp")

\* A round after the first in which an effect signalled Pending, a map
\* function was applied and hooks were run ends with the flag false.
C37_Witness ==
  /\ InLoop /\ ctx.round >= 1 /\ ~AfterPass.thrown
  /\ ~AfterPass.ctx.madeProgressThisRound
  /\ \E i, j, k \in PassCalls :
       /\ AfterPass.ctx.trace[i].cb = "effect" /\ AfterPass.ctx.trace[i].ret = "null"
       /\ AfterPass.ctx.trace[j].cb = "pre"
       /\ AfterPass.ctx.trace[k].cb = "post"


\* The number of effects left in e, wherever they sit.
RECURSIVE PendingEffects(_)
RECURSIVE PendingAmong(_)
PendingEffects(e) ==
  CASE e.t = "fragment" -> PendingAmong(e.fragment)
    [] e.t = "effect" -> 1
    [] e.t = "lifecycle" -> PendingEffects(e.lifecycle.exp)
    [] e.t = "map" -> PendingEffects(e.map.exp)
    [] e.t = "macro" -> PendingEffects(e.macro)
    [] OTHER -> 0

PendingAmong(exps) ==
  IF exps = <<>> THEN 0
  ELSE PendingEffects(Head(exps)) + PendingAmong(Tail(exps))

\* The entries of the dump that report an effect.
Reported == {i \in 1..Len(ctx.logs) : ctx.logs[i].data = "blocked"}

(***************************************************************************)
(* C38.  When evaluate gives up, the dump reports every effect that is     *)
(* left in the remaining expression, also one inside a lifecycle, a map    *)
(* or a macro.                                                             *)
(***************************************************************************)
C38_EveryPendingEffectReported ==
  outcome = "gaveUp" => Cardinality(Reported) = PendingEffects(exp)


\* evaluate has returned to its caller, with a string or with null.
HasReturned == Done /\ outcome \in {"string", "gaveUp", "halt"}

(***************************************************************************)
(* C39.  Whenever evaluate has returned, also when halt was called while a *)
(* nested child was reduced, the tree position of the Context is the root  *)
(* position of depth 0 again.                                              *)
(***************************************************************************)
C39_RootPositionAfterEvaluate ==
  HasReturned =>
    /\ getEvaluationTreePosition(ctx).theDepth = 0
    /\ getEvaluationTreePosition(ctx) = RootEtp

\* On the exits without halt the position is the root position.
C39_RootPositionUnlessHalted ==
  (Done /\ outcome \in {"string", "gaveUp"}) =>
    getEvaluationTreePosition(ctx) = RootEtp


\* A step that begins a call of evaluate.
CallBegins == pc \in {"start", "done"} /\ pc' = "loop"

(***************************************************************************)
(* C40.  Every call of evaluate starts with round 0, mustMakeProgress      *)
(* false and madeProgressThisRound false, also when the Context has been   *)
(* used for an earlier call of evaluate.                                   *)
(***************************************************************************)
C40_EveryCallStartsFresh ==
  [][CallBegins =>
       /\ getRound(ctx') = 0
       /\ ~mustMakeProgress(ctx')
       /\ ~ctx'.madeProgressThisRound]_vars

\* The first call on a new Context starts that way.
C40_FirstCallStartsFresh ==
  [][(pc = "start" /\ pc' = "loop") =>
       /\ getRound(ctx') = 0
       /\ ~mustMakeProgress(ctx')
       /\ ~ctx'.madeProgressThisRound]_vars

\* An expression that a new Context evaluates to "s7" is given up on by a
\* Context that has given up before.
C40_GivenUpOnReuse ==
  /\ input = fragmentExp(<<Counting(1, <<7>>, Str("s7"))>>)
  /\ outcome = "gaveUp"

=============================================================================
